---- MODULE Spec2Model ----
(***************************************************************************)
(* Model of the LogAnomaly classification stage and of the parts of        *)
(* process_file that feed it and consume its results.                      *)
(*                                                                         *)
(*   Spec          classify_anomalies: bounded_classify tasks under the    *)
(*                 semaphore, LogAnalysisWorkflow / LLMCallStep, with_retry *)
(*                 and the LLM_STATS counters.                              *)
(*   SpecFilter    apply_dependent_anomaly_filter on one row.               *)
(*   SpecPipeline  process_file: detector order, candidate selection and    *)
(*                 context windows.                                         *)
(*   SpecFinal     process_file from the classification results on: the     *)
(*                 dependent filter, demotion and the final anomaly set.    *)
(*   SpecLeak      the same on a file with a line that carries a token.     *)
(*   SpecRules, SpecFlood, SpecDetect, SpecBehavior, SpecRatio, SpecMerge   *)
(*                 the rule pass, the rolling window, the detectors, the    *)
(*                 behavioral rules (count and ratio) and the whole of      *)
(*                 process_file.                                            *)
(*   SpecLive      Spec under weak fairness of the event loop.              *)
(*   SpecBatch     process_all_files: classify_anomalies file after file.   *)
(*   SpecBackoff   with_retry and RetryState.get_delay.                     *)
(*   SpecReport    the risk assessment of the summary report.               *)
(*   SpecRecordId  the writing loop and record_id, over two runs.           *)
(***************************************************************************)
EXTENDS Integers, Sequences, FiniteSets, TLC

(* ------------------------------ bounds --------------------------------- *)
\* largest number of candidate rows handed to classify_anomalies
MaxCands == 2
\* largest configured value of app_config.CONCURRENCY explored
MaxConcurrency == 2

(* ------------------------- program constants --------------------------- *)
\* LLMCallStep.__init__(max_attempts=3), passed to RetryConfig
max_attempts == 3

VARIABLES
  \* ---- classify_anomalies ----
  n,            \* len(anomalies_df): number of candidate rows / tasks
  CONCURRENCY,  \* app_config.CONCURRENCY
  sem,          \* asyncio.Semaphore._value
  pc,           \* position of every bounded_classify task
  attempts,     \* RetryState.attempts of the task's with_retry call
  calls,        \* outcomes of the make_llm_call invocations of the task, in order
  results,      \* the slots asyncio.gather fills
  LLM_STATS,    \* the module-level statistics dictionary
  mainpc,       \* position of classify_anomalies itself
  first_done,   \* the task that completed first (0: none yet)
  returned,     \* what classify_anomalies returned
  acquired,     \* tasks whose outer response holds a connection of the TCPConnector
  posts         \* session.post requests the endpoint answered during the
                \* make_llm_call invocation of the task that is running or that
                \* returned its reply; 0 again when the invocation raised

classVars ==
  <<n, CONCURRENCY, sem, pc, attempts, calls, results, LLM_STATS, mainpc, first_done,
    returned, acquired, posts>>

VARIABLES
  \* ---- apply_dependent_anomaly_filter on one row ----
  ENABLE_DEPENDENT_ANOMALY_FILTER,  \* app_config flag
  row_in,       \* the row handed to the filter
  row_out,      \* the row it returned
  fpc           \* "call" before the call, "returned" after it

filterVars == <<ENABLE_DEPENDENT_ANOMALY_FILTER, row_in, row_out, fpc>>

VARIABLES
  \* ---- process_file ----
  df,              \* the DataFrame of the batch, a sequence of rows
  anomalies_df,    \* the candidate rows
  TOP_N_LLM,       \* app_config.TOP_N_LLM
  ppc,             \* position of process_file
  final_anomalies, \* final_anomalies_df, the rows written to the anomaly file
  custom_rule_patterns, \* processor.custom_rule_patterns, loaded at import
  ROLLING_WINDOW_SIZE,  \* app_config.ROLLING_WINDOW_SIZE
  behavioral_rules,     \* the behavioral rules process_file loaded
  has_timestamp,        \* "timestamp" in df.columns
  behavioral_anomalies  \* what evaluate_behavioral_rules returned

fileVars ==
  <<df, anomalies_df, TOP_N_LLM, ppc, final_anomalies, custom_rule_patterns,
    ROLLING_WINDOW_SIZE, behavioral_rules, has_timestamp,
               behavioral_anomalies>>

VARIABLES
  \* ---- process_file, the summary report ----
  security_incidents,  \* len(security_leaks) + int(rule_based_count)
  critical_anomalies,  \* rows of final_anomalies_df with is_anomaly == 1
  risk_level,          \* siem_report.risk_level
  rpc                  \* position of the report part

reportVars == <<security_incidents, critical_anomalies, risk_level, rpc>>

VARIABLES
  \* ---- process_file, writing the anomaly file ----
  run,        \* which run of the program this is (a new interpreter process each)
  str_hash,   \* hash() of this process on the strings it is applied to
  records,    \* the rows of final_anomalies_df, the same in every run
  written,    \* the record_id values written to the anomaly file, by run
  wpc         \* position of the writing loop

writeVars == <<run, str_hash, records, written, wpc>>

VARIABLES
  \* ---- with_retry, one call ----
  config,      \* the RetryConfig: delays in milliseconds, jitter in percent
  rs_attempts, \* RetryState.attempts
  delay,       \* the delay last passed to asyncio.sleep, in milliseconds
  wrpc         \* position of with_retry

retryVars == <<config, rs_attempts, delay, wrpc>>

VARIABLES
  \* ---- process_all_files ----
  file_no,        \* which file of the input folder is being processed
  stats_at_start  \* LLM_STATS when classify_anomalies was called for this file

batchVars == <<file_no, stats_at_start>>

vars ==
  <<classVars, filterVars, fileVars, reportVars, writeVars, retryVars, batchVars>>

\* ENABLE_BEHAVIORAL_DETECTION is off: no rule is loaded, nothing is evaluated
NoBehavioralRules ==
  /\ behavioral_rules = <<>>
  /\ has_timestamp = TRUE
  /\ behavioral_anomalies = <<>>

\* the variables of the other parts, left alone by the actions of each part
notStage == <<filterVars, fileVars, reportVars, writeVars, retryVars, batchVars>>
notFilter == <<classVars, fileVars, reportVars, writeVars, retryVars, batchVars>>
notFile == <<classVars, filterVars, reportVars, writeVars, retryVars, batchVars>>
notReport == <<classVars, filterVars, fileVars, writeVars, retryVars, batchVars>>
notWrite == <<classVars, filterVars, fileVars, reportVars, retryVars, batchVars>>
notRetry == <<classVars, filterVars, fileVars, reportVars, writeVars, batchVars>>

Cands == 1..MaxCands
Rows == 1..n

NoResult == [label |-> "none", cand |-> 0, raised |-> FALSE, tags |-> <<>>]

(* ------------------------------ retry.py ------------------------------- *)

\* RetryConfig.retryable_errors as LLMCallStep configures it
retryable_errors ==
  {"timeout", "connection reset", "too many requests", "capacity", "rate limit",
   "server error", "502", "503", "504", "500", "empty response"}

\* The exceptions make_llm_call can let escape, and the keywords of
\* retryable_errors that str(error).lower() contains for each.
\*   http_503       LLMProviderError("HTTP 503: ...", status_code=503)
\*   http_404       LLMProviderError("HTTP 404: ...", status_code=404)
\*   conn_reset     aiohttp.ClientError "Connection reset by peer", rewrapped
\*   conn_refused   aiohttp.ClientError "Cannot connect to host", rewrapped
\*   session_timeout asyncio.TimeoutError of the outer post (str() is empty)
ErrorKinds == {"http_503", "http_404", "conn_reset", "conn_refused", "session_timeout"}

ErrorText(e) ==
  CASE e = "http_503" -> {"503"}
    [] e = "conn_reset" -> {"connection reset"}
    [] OTHER -> {}

\* any(err_type in error_str for err_type in self.config.retryable_errors)
is_retryable(e) == ErrorText(e) \cap retryable_errors # {}

\* what the history of a with_retry call records of an exception
ErrorClass(e) == IF is_retryable(e) THEN "retryable" ELSE "fatal"

\* mutant: the attempt limit is compared with > instead of >=
should_retry_off_by_one(att, e) ==
  [attempts |-> att + 1,
   retry |-> is_retryable(e) /\ ~(att + 1 > max_attempts)]

\* RetryState.should_retry: counts the failed attempt, then decides
should_retry(att, e) ==
  [attempts |-> att + 1,
   retry |-> is_retryable(e) /\ ~(att + 1 >= max_attempts)]

(* ------------------------------ utils.py ------------------------------- *)

\* The shapes of reply text the classifier endpoint can send back.
\*   normal / anomaly / error : "CLASSIFICATION: <word>" replies, normalised
\*   routine  : "CLASSIFICATION: Routine"
\*   unknown  : a reply with no CLASSIFICATION line
\*   empty    : an empty string
\*   badtags  : a JSON object whose "tags" is not iterable
\*   lc_unknown : "CLASSIFICATION: unknown" (the word is kept as written)
Replies == {"normal", "anomaly", "error", "routine", "unknown", "lc_unknown", "empty", "badtags"}


\* Strings make_llm_call returns instead of raising
TimeoutReply == "Error: LLM request timed out"
BadJsonReply == "Error processing response: Invalid JSON"

\* extract_tags: the label it returns for a reply
extract_tags(reply) ==
  CASE reply = "normal" -> "Normal"
    [] reply = "anomaly" -> "Anomaly"
    [] reply = "error" -> "Error"
    [] reply = "routine" -> "Routine"
    [] reply = "lc_unknown" -> "unknown"
    [] OTHER -> "Unknown"

(* --------------------------- llm_classifier.py ------------------------- *)

Done == {i \in Rows : pc[i] = "done"}

\* mutant: results are collected in completion order
GatherSlotByCompletion(i) == Cardinality(Done) + 1

\* prompt.VALID_TAGS
VALID_TAGS ==
  {"Error", "Warning", "Info", "Debug", "Database", "Network", "Security",
   "Performance", "Configuration", "System", "Application", "API",
   "Authentication", "Authorization", "Validation", "Memory", "CPU", "Disk",
   "Cache", "Queue", "Timeout", "Retry", "Recovery", "Startup", "Shutdown",
   "Dependency", "Integration", "Migration", "Deployment", "Unknown"}

\* extract_tags: the tags it returns for a reply, as written in the reply's
\* TAGS line (split on commas), or ["Unknown"] when the reply has no such line
reply_tags(reply) ==
  CASE reply = "normal" -> <<"database", " Network">>
    [] reply = "anomaly" -> <<"custom", "Disk">>
    [] reply = "error" -> <<"API">>
    [] reply = "lc_unknown" -> <<"made up">>
    [] OTHER -> <<"Unknown">>

\* tag.strip().title()
StripTitle(tag) ==
  CASE tag = "database" -> "Database"
    [] tag = " Network" -> "Network"
    [] tag = "custom" -> "Custom"
    [] tag = "API" -> "Api"
    [] tag = "made up" -> "Made Up"
    [] OTHER -> tag

IsValidTag(tag) == tag \in VALID_TAGS

\* prompt.clean_tags
clean_tags(tags) ==
  LET cleaned == SelectSeq([k \in 1..Len(tags) |-> StripTitle(tags[k])], IsValidTag)
  IN IF cleaned = <<>> THEN <<"Unknown">> ELSE cleaned

\* classify_log_llm, the contains_secret_patterns branch
SecretResult(i) ==
  [label |-> "Sensitive Information Leak", cand |-> i, raised |-> FALSE,
   tags |-> <<"Sensitive", "Security Threat">>]

\* asyncio.gather(*tasks): the result of the i-th awaitable goes to position i
GatherSlot(i) == i

\* mutant: the failure of the workflow is re-raised to the caller
WorkflowErrorRaised(i) == [label |-> "none", cand |-> i, raised |-> TRUE, tags |-> <<>>]

\* classify_log_llm, results.get("errors") non-empty: LLMCallStep (or an earlier
\* step) recorded the exception in context.errors and the workflow stopped
WorkflowError(i) ==
  [label |-> "Error", cand |-> i, raised |-> FALSE, tags |-> <<"Unknown">>]

\* classify_log_llm, the except branch: counts the error and returns "Error"
ClassifyException(i) ==
  [label |-> "Error", cand |-> i, raised |-> FALSE, tags |-> <<"Unknown">>]

\* classify_log_llm on a reply string that with_retry returned.
\* An empty reply makes ResponseEvaluationStep record an error (no statistics
\* update); clean_tags raises on tags it cannot iterate (errors + 1); every
\* other reply is parsed by extract_tags (total_calls + 1).
ReplyResult(i, reply) ==
  CASE reply = "empty" -> [res |-> WorkflowError(i), calls |-> 0, errors |-> 0]
    [] reply = "badtags" -> [res |-> ClassifyException(i), calls |-> 0, errors |-> 1]
    [] OTHER -> [res |-> [label |-> extract_tags(reply), cand |-> i, raised |-> FALSE,
                          tags |-> clean_tags(reply_tags(reply))],
                 calls |-> 1, errors |-> 0]

\* mutant: the section is entered without waiting for a free slot
SemaphoreNeverLocked(value) == TRUE

\* asyncio.Semaphore behind "async with semaphore": the task enters when the
\* counter is positive and waits otherwise
SemaphoreFree(value) == value > 0

\* aiohttp.TCPConnector(limit=CONCURRENCY): a request gets a connection when
\* fewer than limit are in use, and waits otherwise
PoolFree == Cardinality(acquired) < CONCURRENCY

\* mutant: the timeout of the inner request starts once it has a connection
TimeoutOnceConnected(connected) == connected

\* the inner post's ClientTimeout(total=TIMEOUT): the total also covers the
\* wait for a connection of the pool, so it expires whether or not the
\* request got one
TimeoutExpires(connected) == TRUE

\* The task ends: bounded_classify returns r and gather stores it. Leaving
\* make_llm_call closes the outer "async with", which releases its response. held is 1
\* when the task was suspended inside "async with semaphore" and releases it
\* now, 0 when it entered and left the section without suspending. An
\* exception leaving a task makes gather raise in classify_anomalies.
Finish(i, r, dCalls, dErrors, held) ==
  /\ pc' = [pc EXCEPT ![i] = "done"]
  /\ results' = [results EXCEPT ![GatherSlot(i)] = r]
  /\ LLM_STATS' = [total_calls |-> LLM_STATS.total_calls + dCalls,
                   errors |-> LLM_STATS.errors + dErrors]
  /\ sem' = sem + held
  /\ mainpc' = IF r.raised THEN "raised" ELSE mainpc
  /\ first_done' = IF first_done = 0 THEN i ELSE first_done
  /\ acquired' = acquired \ {i}

\* mutant: a returned string is treated like a retryable failure, the loop
\* sleeps and calls the operation again
ReturnReplyAndRetry(i, outcome, reply) ==
  /\ calls' = [calls EXCEPT ![i] = Append(@, outcome)]
  /\ pc' = [pc EXCEPT ![i] = "backoff"]
  /\ acquired' = acquired \ {i}
  /\ UNCHANGED <<attempts, results, LLM_STATS, sem, mainpc, first_done>>

\* with_retry got a string back from make_llm_call: it returns it at once,
\* LLMCallStep stores it as llm_response and classify_log_llm parses it
ReturnReply(i, outcome, reply) ==
  /\ calls' = [calls EXCEPT ![i] = Append(@, outcome)]
  /\ LET rr == ReplyResult(i, reply)
     IN Finish(i, rr.res, rr.calls, rr.errors, 1)
  /\ UNCHANGED attempts

\* with_retry caught exception e from make_llm_call: should_retry decides
\* between the backoff sleep (after on_retry_error) and re-raising, which
\* LLMCallStep.execute turns into context.errors
RaiseError(i, e) ==
  LET sr == should_retry(attempts[i], e) IN
  /\ calls' = [calls EXCEPT ![i] = Append(@, ErrorClass(e))]
  /\ attempts' = [attempts EXCEPT ![i] = sr.attempts]
  /\ IF sr.retry
       THEN /\ pc' = [pc EXCEPT ![i] = "backoff"]
            /\ acquired' = acquired \ {i}
            /\ UNCHANGED <<results, LLM_STATS, sem, mainpc, first_done>>
       ELSE Finish(i, WorkflowError(i), 0, 0, 1)

\* bounded_classify enters the semaphore and classify_log_llm runs up to its
\* first await. kind is what the row's log line is:
\*   secret contains_secret_patterns is true: returned without a request
\*   blank  empty string: ThinkingStep fails, the workflow reports errors
\*   text   the workflow reaches LLMCallStep and with_retry calls make_llm_call
bounded_classify(i) ==
  /\ mainpc = "gather"
  /\ UNCHANGED notStage
  /\ pc[i] = "queued"
  /\ SemaphoreFree(sem)
  /\ \E kind \in {"secret", "blank", "text"} :
       \/ /\ kind = "secret"
          /\ Finish(i, SecretResult(i), 1, 0, 0)
       \/ /\ kind = "blank"
          /\ Finish(i, WorkflowError(i), 0, 0, 0)
       \/ /\ kind = "text"
          /\ pc' = [pc EXCEPT ![i] = "post_outer"]
          /\ sem' = sem - 1
          /\ UNCHANGED <<results, LLM_STATS, mainpc, first_done, acquired>>
  /\ UNCHANGED <<n, CONCURRENCY, returned, attempts, calls, posts>>

\* make_llm_call, the outer "async with self.session.post(...)": the request
\* gets a connection and is answered (the body of the block runs) or the post
\* raises. The response keeps its connection until its body has arrived in
\* full (keeps), else the connection is back in the pool already.
post_outer(i) ==
  /\ mainpc = "gather"
  /\ UNCHANGED notStage
  /\ pc[i] = "post_outer"
  /\ \/ /\ PoolFree
        /\ pc' = [pc EXCEPT ![i] = "post_inner"]
        /\ posts' = [posts EXCEPT ![i] = 1]
        /\ \E keeps \in BOOLEAN :
             acquired' = IF keeps THEN acquired \cup {i} ELSE acquired
        /\ UNCHANGED <<attempts, calls, results, LLM_STATS, sem, mainpc, first_done>>
     \/ /\ \E e \in {"conn_reset", "conn_refused", "session_timeout"} : RaiseError(i, e)
        /\ posts' = [posts EXCEPT ![i] = 0]
  /\ UNCHANGED <<n, CONCURRENCY, returned>>

\* make_llm_call, the inner post with ClientTimeout(total=TIMEOUT):
\*   asyncio.TimeoutError is caught and a string is returned;
\*   a status other than 200 raises LLMProviderError;
\*   a body that is not JSON returns a string;
\*   otherwise provider.extract_response(data) is returned
post_inner(i) ==
  /\ mainpc = "gather"
  /\ UNCHANGED notStage
  /\ pc[i] = "post_inner"
  /\ \/ /\ TimeoutExpires(PoolFree)
        /\ ReturnReply(i, "timeout", TimeoutReply)
        /\ UNCHANGED posts
     \/ /\ PoolFree
        /\ posts' = [posts EXCEPT ![i] = @ + 1]
        /\ \/ ReturnReply(i, "badjson", BadJsonReply)
           \/ \E reply \in Replies : ReturnReply(i, "ok", reply)
     \/ /\ PoolFree
        /\ posts' = [posts EXCEPT ![i] = 0]
        /\ \E e \in {"http_503", "http_404"} : RaiseError(i, e)
  /\ UNCHANGED <<n, CONCURRENCY, returned>>

\* with_retry: asyncio.sleep(delay) is over, the loop calls the operation again
backoff_over(i) ==
  /\ mainpc = "gather"
  /\ UNCHANGED notStage
  /\ pc[i] = "backoff"
  /\ pc' = [pc EXCEPT ![i] = "post_outer"]
  /\ UNCHANGED <<n, CONCURRENCY, returned, attempts, calls, results, LLM_STATS, sem, mainpc,
               first_done, acquired, posts>>

\* classify_anomalies after "results = await asyncio.gather(*tasks)": the four
\* lists are built by position; cleaned_logs[idx] is read from
\* anomalies_df.iloc[idx]
gather_returns ==
  /\ mainpc = "gather"
  /\ UNCHANGED notStage
  /\ \A i \in Rows : pc[i] = "done"
  /\ mainpc' = "returned"
  /\ returned' = [classifications |-> [idx \in Rows |-> results[idx].label],
                  owner |-> [idx \in Rows |-> results[idx].cand],
                  tags_list |-> [idx \in Rows |-> results[idx].tags],
                  cleaned_logs |-> [idx \in Rows |-> idx],
                  stats |-> LLM_STATS]
  /\ UNCHANGED <<n, CONCURRENCY, sem, pc, attempts, calls, results, LLM_STATS, first_done,
               acquired, posts>>

\* classify_anomalies has just been called with n candidate rows
InitStage ==
  /\ n \in 1..MaxCands
  /\ CONCURRENCY \in 1..MaxConcurrency
  /\ sem = CONCURRENCY
  /\ pc = [i \in Cands |-> IF i <= n THEN "queued" ELSE "absent"]
  /\ attempts = [i \in Cands |-> 0]
  /\ calls = [i \in Cands |-> <<>>]
  /\ results = [i \in Cands |-> NoResult]
  /\ LLM_STATS = [total_calls |-> 0, errors |-> 0]
  /\ mainpc = "gather"
  /\ first_done = 0
  /\ returned = [classifications |-> <<>>, owner |-> <<>>, tags_list |-> <<>>,
                 cleaned_logs |-> <<>>,
                 stats |-> [total_calls |-> 0, errors |-> 0]]
  /\ acquired = {}
  /\ posts = [i \in Cands |-> 0]

\* the stage while another part of the program is looked at
IdleStage ==
  /\ n = 0
  /\ CONCURRENCY = 1
  /\ sem = 1
  /\ pc = [i \in Cands |-> "absent"]
  /\ attempts = [i \in Cands |-> 0]
  /\ calls = [i \in Cands |-> <<>>]
  /\ results = [i \in Cands |-> NoResult]
  /\ LLM_STATS = [total_calls |-> 0, errors |-> 0]
  /\ mainpc = "idle"
  /\ first_done = 0
  /\ returned = [classifications |-> <<>>, owner |-> <<>>, tags_list |-> <<>>,
                 cleaned_logs |-> <<>>,
                 stats |-> [total_calls |-> 0, errors |-> 0]]
  /\ acquired = {}
  /\ posts = [i \in Cands |-> 0]


(* ---------------- llm_classifier.apply_dependent_anomaly_filter -------- *)

\* longest log line explored
MaxLogLen == 5

\* characters of the log lines explored: a blank, the marker's letters, another
Chars == {" ", "a", "t", "x"}

Strings(len) == UNION {[1..k -> Chars] : k \in 0..len}

IsSpace(c) == c = " "

\* str.lstrip(): without the leading whitespace
RECURSIVE LStrip(_)
LStrip(str) ==
  IF str # <<>> /\ IsSpace(Head(str)) THEN LStrip(Tail(str)) ELSE str

\* str.rstrip(): without the trailing whitespace
RECURSIVE RStrip(_)
RStrip(str) ==
  IF str # <<>> /\ IsSpace(str[Len(str)])
    THEN RStrip(SubSeq(str, 1, Len(str) - 1))
    ELSE str

\* str.strip()
Strip(str) == RStrip(LStrip(str))

\* str.startswith(prefix)
StartsWith(str, prefix) ==
  /\ Len(str) >= Len(prefix)
  /\ SubSeq(str, 1, Len(prefix)) = prefix

\* the stack-trace marker "at "
AtMarker == <<"a", "t", " ">>

\* mutant: the configuration flag is not consulted
filter_ignoring_flag(row, enabled) ==
  IF row.classification = "Unknown" /\ StartsWith(Strip(row.log), AtMarker)
    THEN [row EXCEPT !.classification = "Dependent Anomaly",
                     !.reason = "Stack trace line, follows an actual error.",
                     !.is_anomaly = 0]
    ELSE row

\* apply_dependent_anomaly_filter(row) under app_config's flag
apply_dependent_anomaly_filter(row, enabled) ==
  IF ~enabled THEN row
  ELSE IF row.classification = "Unknown" /\ StartsWith(Strip(row.log), AtMarker)
    THEN [row EXCEPT !.classification = "Dependent Anomaly",
                     !.reason = "Stack trace line, follows an actual error.",
                     !.is_anomaly = 0]
    ELSE row

\* classifications a row can carry when the filter sees it
FilterLabels == {"Unknown", "unknown", "Anomaly", "Normal"}

InitFilter ==
  /\ ENABLE_DEPENDENT_ANOMALY_FILTER \in BOOLEAN
  /\ row_in \in [log : Strings(MaxLogLen), classification : FilterLabels,
                 reason : {"r"}, is_anomaly : {0, 1}]
  /\ row_out = row_in
  /\ fpc = "call"

IdleFilter ==
  /\ ENABLE_DEPENDENT_ANOMALY_FILTER = TRUE
  /\ row_in = [log |-> <<>>, classification |-> "Unknown", reason |-> "r", is_anomaly |-> 0]
  /\ row_out = row_in
  /\ fpc = "idle"

\* the filter is called on the row
call_filter ==
  /\ fpc = "call"
  /\ row_out' = apply_dependent_anomaly_filter(row_in, ENABLE_DEPENDENT_ANOMALY_FILTER)
  /\ fpc' = "returned"
  /\ UNCHANGED <<ENABLE_DEPENDENT_ANOMALY_FILTER, row_in>>
  /\ UNCHANGED notFilter


(* ------------------------- processor.process_file ---------------------- *)

\* largest batch explored
MaxRecords == 3
\* largest configured TOP_N_LLM explored
MaxTopN == 2
\* get_context_logs(df, index, window): the window explored. process_file uses
\* the default of 5; the batches explored are shorter than that, so the window
\* is scaled down to stay inside the batch.
ContextWindow == 1

\* app_config.TOP_PERCENT = 0.05 as a fraction
TOP_PERCENT_NUM == 5
TOP_PERCENT_DEN == 100

\* The characters of the log lines explored
Text(log) ==
  CASE log = "at x" -> <<"a", "t", " ", "x">>
    [] log = "db error x" -> <<"d", "b", " ", "e", "r", "r", "o", "r", " ", "x">>
    [] log = "[a] job ok" -> <<"[", "a", "]", " ", "j", "o", "b", " ", "o", "k">>
    [] log = "disk full now" ->
         <<"d", "i", "s", "k", " ", "f", "u", "l", "l", " ", "n", "o", "w">>
    [] log = "login failed token abc" ->
         <<"l", "o", "g", "i", "n", " ", "f", "a", "i", "l", "e", "d", " ",
           "t", "o", "k", "e", "n", " ", "a", "b", "c">>

\* The (log, calendar day of the timestamp) pairs a loaded record can have
RecordKinds ==
  {[log |-> "db error x", day |-> 1],
   [log |-> "[a] job ok", day |-> 1],
   [log |-> "disk full now", day |-> 1],
   [log |-> "disk full now", day |-> 2]}

\* a row of df as load_logs leaves it, at position k of the file
LoadedRow(k, kind) ==
  [orig |-> k, log |-> kind.log, day |-> kind.day, anomaly_score |-> 0,
   is_anomaly |-> 0, is_rule_based |-> FALSE, classification |-> "none",
   reason |-> "none", tag |-> <<>>, idx |-> 0, context_logs |-> <<>>,
   log_template |-> kind.log, anomaly_source |-> "none", flood_count |-> 0,
   flood_rows |-> {}, ts |-> 0, user |-> "none",
   raw_log |-> kind.log,   \* history: the line as load_logs read it

   is_behavioral |-> FALSE, behavioral_rule |-> "none", lof_score |-> 0]

\* utils.DEFAULT_RULE_BASED_PATTERNS
DEFAULT_RULE_BASED_PATTERNS ==
  << [name |-> "Database Error", pattern |-> "(?:database|db).*error",
      reason |-> "Database operation failed."],
     [name |-> "Service Timeout", pattern |-> "(?:timeout|timed out|request timed out)",
      reason |-> "Service call timed out."],
     [name |-> "HTTP 500 Error", pattern |-> "status\\s*[:=]\\s*500",
      reason |-> "HTTP 500 server error."],
     [name |-> "Process Crash", pattern |-> "(?:process|service)\\s*(?:exited|crashed|terminated)",
      reason |-> "Process crash detected."],
     [name |-> "Restart Detected", pattern |-> "(?:restart|restarting)",
      reason |-> "Process or pod restart detected."],
     [name |-> "Dependency Failure",
      pattern |-> "(?:dependency|service)\\s*(?:unavailable|failed|error)",
      reason |-> "Dependency failure detected."],
     [name |-> "Configuration Issue", pattern |-> "(?:invalid|missing)\\s*configuration",
      reason |-> "Configuration issue."],
     [name |-> "Resource Limit Issue",
      pattern |-> "(?:out of memory|OOM|cpu limit exceeded|quota exceeded)",
      reason |-> "Resource limit breach."] >>

\* The entries of app_config.ADDITIONAL_RULE_BASED_PATTERNS explored; the
\* pattern of the last one does not compile
ExtensionPatterns ==
  {[name |-> "Disk Full", pattern |-> "disk\\s+full", reason |-> "Disk is full."],
   [name |-> "Any Error", pattern |-> "error", reason |-> "Error seen."],
   [name |-> "Broken", pattern |-> "(unclosed", reason |-> "Never compiles."]}

\* largest number of additional patterns configured
MaxExtensions == 2

\* load_custom_patterns: the defaults, then the additional patterns
load_custom_patterns(extra_rules) == DEFAULT_RULE_BASED_PATTERNS \o extra_rules

\* re.compile accepts the pattern (re.search raises re.error otherwise)
ValidRegex(pattern) == pattern # "(unclosed"

\* re.search(pattern, log_line, re.IGNORECASE) finds a match, for the patterns
\* and the lines explored
Matches(pattern, log_line) ==
  \/ pattern = "(?:database|db).*error" /\ log_line \in {"db error x", "db error timed out"}
  \/ pattern = "(?:timeout|timed out|request timed out)" /\ log_line = "db error timed out"
  \/ pattern = "disk\\s+full" /\ log_line = "disk full now"
  \/ pattern = "error" /\ log_line \in {"db error x", "db error timed out",
                                          "conn error on node <*>",
                                          "conn error on node <*> again",
                                          "[LOG FLOOD] <n> occurrences of similar logs: conn error on node <*>",
                                          "[LOG FLOOD] <n> occurrences of similar logs: conn error on node <*> again"}
  \/ pattern = "failed" /\ log_line \in {"login failed token abc",
                                           "login failed token <REDACTED>"}
  \/ pattern = "token abc" /\ log_line = "login failed token abc"

\* what rule_based_classification does when no rule matched, after evaluating
\* the first k rules
NoRuleMatched(k) ==
  [matched |-> FALSE, raised |-> FALSE, label |-> "none", reason |-> "none",
   name |-> "none", evaluated |-> k]

\* mutant: the list is searched to its end and the last matching rule is returned
rule_based_classification_last_match(log_line, rule_based_patterns) ==
  LET hits == {j \in 1..Len(rule_based_patterns) :
                 Matches(rule_based_patterns[j].pattern, log_line)}
      last == CHOOSE j \in hits : \A h \in hits : h <= j
  IN IF hits = {}
       THEN NoRuleMatched(Len(rule_based_patterns))
       ELSE [matched |-> TRUE, raised |-> FALSE, label |-> "Operational Error",
             reason |-> rule_based_patterns[last].reason,
             name |-> rule_based_patterns[last].name,
             evaluated |-> Len(rule_based_patterns)]

\* the loop of rule_based_classification from rule k on
RECURSIVE scan_rules(_, _, _)
scan_rules(log_line, rule_based_patterns, k) ==
  IF k > Len(rule_based_patterns)
    THEN NoRuleMatched(k - 1)
    ELSE LET rule == rule_based_patterns[k] IN
         IF ~ValidRegex(rule.pattern)
           THEN [NoRuleMatched(k) EXCEPT !.raised = TRUE]
           ELSE IF Matches(rule.pattern, log_line)
                  THEN [matched |-> TRUE, raised |-> FALSE, label |-> "Operational Error",
                        reason |-> rule.reason, name |-> rule.name, evaluated |-> k]
                  ELSE scan_rules(log_line, rule_based_patterns, k + 1)

\* utils.rule_based_classification: evaluated is the number of rules that
\* re.search was called for, raised says that re.search raised re.error
rule_based_classification(log_line, rule_based_patterns) ==
  scan_rules(log_line, rule_based_patterns, 1)

\* utils.clean_log_line on the lines explored: a bracketed part is removed,
\* "token <word>" becomes <SECRET>, the whitespace is collapsed and stripped;
\* the other substitutions (ISO timestamps, ids, IPs) find nothing in these lines
clean_log_line(log) ==
  CASE log = "[a] job ok" -> "job ok"
    [] log = "login failed token abc" -> "login failed <SECRET>"
    [] log = "login failed token <REDACTED>" -> "login failed <SECRET>"
    [] log = "[LOG FLOOD] <n> occurrences of similar logs: job ok" ->
         "<n> occurrences of similar logs: job ok"
    [] log = "[LOG FLOOD] <n> occurrences of similar logs: conn error on node <*>" ->
         "<n> occurrences of similar logs: conn error on node <*>"
    [] log = "[LOG FLOOD] <n> occurrences of similar logs: conn error on node <*> again" ->
         "<n> occurrences of similar logs: conn error on node <*> again"
    [] OTHER -> log

\* the "log" entries of the non_anomalies file of the source file
NonAnomalousEntries == {"job ok"}

\* mutant: the raw lines are compared
is_non_anomalous_raw(log) == log \in NonAnomalousEntries

\* utils.is_non_anomalous: some entry equals the line after clean_log_line of both
is_non_anomalous(log) ==
  \E entry \in NonAnomalousEntries : clean_log_line(entry) = clean_log_line(log)

Max(a, b) == IF a >= b THEN a ELSE b
Min(a, b) == IF a <= b THEN a ELSE b

\* the permutations of 1..len: the ways distinct anomaly scores can rank the rows
Perms(len) == {f \in [1..len -> 1..len] : \A a, b \in 1..len : a # b => f[a] # f[b]}

\* int(top_percent * len(df)) or 1
top_n(len) ==
  LET t == (TOP_PERCENT_NUM * len) \div TOP_PERCENT_DEN IN IF t = 0 THEN 1 ELSE t

\* detect_knn_anomalies. rank[k] is the row that gets the k-th highest score.
\* The frame is sorted by score, the index is reset, and the label slice
\* df.loc[:top_n] (inclusive) is flagged.
detect_knn_anomalies(d, rank) ==
  IF Len(d) < 2
    THEN [k \in 1..Len(d) |-> [d[k] EXCEPT !.anomaly_score = 0, !.is_anomaly = 0]]
    ELSE [k \in 1..Len(d) |->
            [d[rank[k]] EXCEPT !.anomaly_score = Len(d) + 1 - k,
                               !.is_anomaly = IF k - 1 <= top_n(Len(d)) THEN 1 ELSE 0]]

\* the columns detect_anomalies_lof writes after fit_predict: is_anomaly is
\* overwritten with the LOF labels
lof_labels(d, outliers) ==
  [k \in 1..Len(d) |->
     [d[k] EXCEPT !.is_anomaly = IF k \in outliers THEN 1 ELSE 0,
                  !.lof_score = IF k \in outliers THEN 2 ELSE 1,
                  !.anomaly_source = "LOF"]]

\* mutant: the model is fitted whatever the number of rows
detect_anomalies_lof_unguarded(d, outliers) == lof_labels(d, outliers)

\* detect_anomalies_lof: outliers are the rows fit_predict labels -1; their
\* lof_score is written 2 and that of the other rows 1. Fewer than two rows
\* are not fitted.
detect_anomalies_lof(d, outliers) ==
  IF Len(d) < 2
    THEN [k \in 1..Len(d) |->
            [d[k] EXCEPT !.is_anomaly = 0, !.lof_score = 0, !.anomaly_source = "LOF"]]
    ELSE lof_labels(d, outliers)

\* apply_rule_based_classification on one row
apply_rule_based_classification(row) ==
  LET r == rule_based_classification(row.log, custom_rule_patterns) IN
  IF r.matched
    THEN [row EXCEPT !.classification = r.label, !.reason = r.reason,
                     !.tag = <<r.name>>,
                     !.is_rule_based = TRUE, !.is_anomaly = 1,
                     !.anomaly_source = "Rule-Based"]
    ELSE [row EXCEPT !.is_rule_based = FALSE]

\* DataFrame.head(k)
HeadRows(seq, k) == SubSeq(seq, 1, Min(k, Len(seq)))

\* get_context_logs(df, index, window): the rows of df at positions
\* index - window .. index + window, without those dated on another day than
\* the row at index. (The lines explored all pass the fragment checks.)
get_context_logs(d, index, window) ==
  LET start == Max(index - window, 1)
      end == Min(index + window, Len(d))
      context == SubSeq(d, start, end)
      SameDay(r) == r.day = d[index].day
  IN SelectSeq(context, SameDay)

\* mutant: rule-classified rows are not excluded
eligible_with_rule_based(row) == row.is_anomaly = 1

\* process_file: df[(df["is_anomaly"] == 1) & (df["is_rule_based"] == False)]
eligible(row) == row.is_anomaly = 1 /\ ~row.is_rule_based

\* process_file, candidate selection: the first TOP_N_LLM eligible rows, minus
\* the allow-listed ones, each with its context window
select_candidates(d, topn) ==
  LET withIdx == [k \in 1..Len(d) |-> [d[k] EXCEPT !.idx = k]]
      head == HeadRows(SelectSeq(withIdx, eligible), topn)
      NotAllowListed(r) == ~is_non_anomalous(r.log)
      kept == SelectSeq(head, NotAllowListed)
  IN [k \in 1..Len(kept) |->
        [kept[k] EXCEPT !.context_logs = get_context_logs(d, kept[k].idx, ContextWindow)]]

InitFile ==
  /\ custom_rule_patterns = load_custom_patterns(<<>>)
  /\ ROLLING_WINDOW_SIZE = 1000
  /\ NoBehavioralRules
  /\ \E len \in 1..MaxRecords :
       df \in {[k \in 1..len |-> LoadedRow(k, kinds[k])] : kinds \in [1..len -> RecordKinds]}
  /\ anomalies_df = <<>>
  /\ TOP_N_LLM \in 1..MaxTopN
  /\ ppc = "loaded"
  /\ final_anomalies = <<>>

IdleFile ==
  /\ custom_rule_patterns = load_custom_patterns(<<>>)
  /\ ROLLING_WINDOW_SIZE = 1000
  /\ NoBehavioralRules
  /\ df = <<>>
  /\ anomalies_df = <<>>
  /\ TOP_N_LLM = 1
  /\ ppc = "idle"
  /\ final_anomalies = <<>>

\* df = knn_detect(df, app_config.TOP_PERCENT)
knn_detect ==
  /\ ppc = "loaded"
  /\ \E rank \in Perms(Len(df)) : df' = detect_knn_anomalies(df, rank)
  /\ ppc' = "knn"
  /\ UNCHANGED <<anomalies_df, TOP_N_LLM, final_anomalies, custom_rule_patterns,
               ROLLING_WINDOW_SIZE, behavioral_rules, has_timestamp,
               behavioral_anomalies>>
  /\ UNCHANGED notFile

\* df = detect_anomalies_lof(df, ...), ENABLE_LOF being on
lof_detect ==
  /\ ppc = "knn"
  /\ \E outliers \in SUBSET (1..Len(df)) : df' = detect_anomalies_lof(df, outliers)
  /\ ppc' = "lof"
  /\ UNCHANGED <<anomalies_df, TOP_N_LLM, final_anomalies, custom_rule_patterns,
               ROLLING_WINDOW_SIZE, behavioral_rules, has_timestamp,
               behavioral_anomalies>>
  /\ UNCHANGED notFile

\* df = df.apply(apply_rule_based_classification, axis=1)
\* (a re.error raised for a row leaves df.apply and process_file)
rule_classify ==
  /\ ppc = "lof"
  /\ IF \E k \in 1..Len(df) : rule_based_classification(df[k].log, custom_rule_patterns).raised
       THEN /\ ppc' = "failed"
            /\ UNCHANGED df
       ELSE /\ df' = [k \in 1..Len(df) |-> apply_rule_based_classification(df[k])]
            /\ ppc' = "rules"
  /\ UNCHANGED <<anomalies_df, TOP_N_LLM, final_anomalies, custom_rule_patterns,
               ROLLING_WINDOW_SIZE, behavioral_rules, has_timestamp,
               behavioral_anomalies>>
  /\ UNCHANGED notFile

\* the candidates are selected; a non-empty anomalies_df is what
\* classify_anomalies is called with
select ==
  /\ ppc = "rules"
  /\ anomalies_df' = select_candidates(df, TOP_N_LLM)
  /\ ppc' = "selected"
  /\ UNCHANGED <<df, TOP_N_LLM, final_anomalies, custom_rule_patterns,
               ROLLING_WINDOW_SIZE, behavioral_rules, has_timestamp,
               behavioral_anomalies>>
  /\ UNCHANGED notFile

(* ---------------- detectors.rolling_window_detector -------------------- *)

\* largest batch handed to rolling_window_chunking alone
MaxFloodLen == 7
\* largest window size explored (app_config.ROLLING_WINDOW_SIZE is 1000)
MaxWindow == 4

\* app_config.ROLLING_WINDOW_THRESHOLD = 0.75, as a fraction
THRESHOLD_NUM == 3
THRESHOLD_DEN == 4

\* the log templates explored
Templates == {"conn error on node <*>", "conn error on node <*> again", "job ok"}

\* template.split() as a set
Words(template) ==
  CASE template = "conn error on node <*>" -> {"conn", "error", "on", "node", "<*>"}
    [] template = "conn error on node <*> again" -> {"conn", "error", "on", "node", "<*>", "again"}
    [] template = "job ok" -> {"job", "ok"}

\* compute_template_similarity(template1, template2) > 0.8
SimilarTemplates(template1, template2) ==
  LET inter == Words(template1) \cap Words(template2)
      union == Words(template1) \cup Words(template2)
  IN union # {} /\ 5 * Cardinality(inter) > 4 * Cardinality(union)

\* the number of rows of seq with the template
TemplateCount(seq, template) ==
  Cardinality({k \in 1..Len(seq) : seq[k].log_template = template})

\* the templates of the window with c / window_size >= repetition_threshold
flood_templates(window, window_size) ==
  {t \in Templates : /\ TemplateCount(window, t) > 0
                     /\ TemplateCount(window, t) * THRESHOLD_DEN >= THRESHOLD_NUM * window_size}

\* the end j (exclusive, counted from 1) of the flood that starts at i
RECURSIVE flood_end(_, _, _)
flood_end(d, j, dominant) ==
  IF j <= Len(d) /\ SimilarTemplates(d[j].log_template, dominant)
    THEN flood_end(d, j + 1, dominant)
    ELSE j

\* analyze_flood_pattern: "error" in log.lower() for some log of the flood;
\* the lines explored are their templates with a node name filled in
flood_severity(flood_logs) ==
  IF \E k \in 1..Len(flood_logs) : "error" \in Words(flood_logs[k].log_template)
    THEN "error" ELSE "unknown"

\* analyze_flood_pattern: max(set(templates), key=templates.count). With a tie
\* the iteration order of the set decides, which differs from run to run;
\* prefer is the template that order puts first
analyze_template(flood_logs, prefer) ==
  LET most == {t \in Templates :
                 /\ TemplateCount(flood_logs, t) > 0
                 /\ \A u \in Templates :
                      TemplateCount(flood_logs, u) <= TemplateCount(flood_logs, t)}
  IN IF prefer \in most THEN prefer ELSE CHOOSE t \in most : TRUE

\* f"[LOG FLOOD] {j-i} occurrences of similar logs: {template}"; the number is
\* kept in flood_count and written <n> here
flood_text(template) ==
  CASE template = "conn error on node <*>" ->
         "[LOG FLOOD] <n> occurrences of similar logs: conn error on node <*>"
    [] template = "conn error on node <*> again" ->
         "[LOG FLOOD] <n> occurrences of similar logs: conn error on node <*> again"
    [] template = "job ok" -> "[LOG FLOOD] <n> occurrences of similar logs: job ok"

\* the summary row that replaces df.iloc[i:j] (i, j counted from 1 here)
summary_row(d, i, j, prefer) ==
  LET flood_logs == SubSeq(d, i, Min(j - 1, Len(d))) IN
  [LoadedRow(0, [log |-> flood_text(analyze_template(flood_logs, prefer)), day |-> 1]) EXCEPT
     !.is_anomaly = IF flood_severity(flood_logs) = "error" THEN 1 ELSE 0,
     !.anomaly_source = "FLOOD",
     !.flood_count = j - i,
     !.flood_rows = {flood_logs[k].orig : k \in 1..Len(flood_logs)}]

\* the while loop of rolling_window_chunking from position i on
RECURSIVE chunk_from(_, _, _, _)
chunk_from(d, window_size, i, prefer) ==
  IF i > Len(d)
    THEN <<>>
    ELSE LET window == SubSeq(d, i, Min(i + window_size - 1, Len(d)))
             floods == flood_templates(window, window_size)
         IN IF floods # {}
              THEN LET dominant == CHOOSE t \in floods :
                                     \A u \in floods :
                                       TemplateCount(window, u) <= TemplateCount(window, t)
                       j == flood_end(d, i + window_size, dominant)
                   IN <<summary_row(d, i, j, prefer)>> \o chunk_from(d, window_size, j, prefer)
              ELSE <<d[i]>> \o chunk_from(d, window_size, i + 1, prefer)

\* rolling_window_chunking(df, window_size, repetition_threshold)
rolling_window_chunking(d, window_size, prefer) ==
  IF Len(d) <= window_size THEN d ELSE chunk_from(d, window_size, 1, prefer)

\* a row with a mined template, at position k of the file
TemplateRow(k, template) ==
  [LoadedRow(k, [log |-> template, day |-> 1]) EXCEPT !.log_template = template]

\* process_file just before the rolling window pass
InitFloodFile ==
  /\ custom_rule_patterns = load_custom_patterns(<<>>)
  /\ ROLLING_WINDOW_SIZE \in 2..MaxWindow
  /\ NoBehavioralRules
  /\ \E len \in 0..MaxFloodLen :
       df \in {[k \in 1..len |-> TemplateRow(k, ts[k])] : ts \in [1..len -> Templates]}
  /\ anomalies_df = <<>>
  /\ TOP_N_LLM = 1
  /\ ppc = "templates"
  /\ final_anomalies = <<>>

\* df = rolling_window_chunking(df, window_size=ROLLING_WINDOW_SIZE, ...)
rolling_window ==
  /\ ppc = "templates"
  /\ \E prefer \in Templates : df' = rolling_window_chunking(df, ROLLING_WINDOW_SIZE, prefer)
  /\ ppc' = "loaded"
  /\ UNCHANGED <<anomalies_df, TOP_N_LLM, final_anomalies, custom_rule_patterns,
               ROLLING_WINDOW_SIZE, behavioral_rules, has_timestamp,
               behavioral_anomalies>>
  /\ UNCHANGED notFile

NextFlood == rolling_window

(* ----------------------------- rule pass ------------------------------- *)

\* largest batch handed to the rule pass alone
MaxRuleRows == 2

\* the lines of the rows the rule pass is explored on
RuleLogs == {"db error x", "db error timed out", "disk full now"}

\* the sequences over S of length at most len
SeqsUpTo(S, len) == UNION {[1..k -> S] : k \in 0..len}

\* a row as the rule pass can find it: flagged or not by the detectors, with or
\* without a classification from before
RuleRow(k, in) ==
  [LoadedRow(k, [log |-> in.log, day |-> 1]) EXCEPT
     !.is_anomaly = in.is_anomaly,
     !.classification = in.prior,
     !.reason = in.prior,
     !.tag = IF in.prior = "none" THEN <<>> ELSE <<in.prior>>]

\* process_file just before the rule pass, with additional patterns configured
InitRulesFile ==
  /\ custom_rule_patterns \in
       {load_custom_patterns(extra) : extra \in SeqsUpTo(ExtensionPatterns, MaxExtensions)}
  /\ ROLLING_WINDOW_SIZE = 1000
  /\ NoBehavioralRules
  /\ \E len \in 1..MaxRuleRows :
       df \in {[k \in 1..len |-> RuleRow(k, ins[k])] :
               ins \in [1..len -> [log : RuleLogs, is_anomaly : {0, 1},
                                   prior : {"none", "Prior"}]]}
  /\ anomalies_df = <<>>
  /\ TOP_N_LLM = 1
  /\ ppc = "lof"
  /\ final_anomalies = <<>>

NextRules == rule_classify

\* the rows the two detectors are explored on alone: a row may come flagged
DetectKinds == [log : {"db error x", "disk full now"}, flagged : {0, 1}]

DetectRow(k, kind) ==
  [LoadedRow(k, [log |-> kind.log, day |-> 1]) EXCEPT !.is_anomaly = kind.flagged]

\* process_file just before the detectors, for batches from no row on
InitDetectFile ==
  /\ custom_rule_patterns = load_custom_patterns(<<>>)
  /\ ROLLING_WINDOW_SIZE = 1000
  /\ NoBehavioralRules
  /\ \E len \in 0..MaxRecords :
       df \in {[k \in 1..len |-> DetectRow(k, kinds[k])] : kinds \in [1..len -> DetectKinds]}
  /\ anomalies_df = <<>>
  /\ TOP_N_LLM = 1
  /\ ppc = "loaded"
  /\ final_anomalies = <<>>

NextDetect == knn_detect \/ lof_detect

NextFile == knn_detect \/ lof_detect \/ rule_classify \/ select

\* The labels classify_log_llm can return: those of extract_tags, "Error", and
\* the label of a line with a secret
StageLabels == {extract_tags(r) : r \in Replies} \cup {"Error", "Sensitive Information Leak"}

\* process_file: anomalies_df["classification"].isin(["Routine", "Normal", "unknown"])
DemotedLabels == {"Routine", "Normal", "unknown"}

\* the rows of anomalies_df demoted to is_anomaly = 0
demote_rows(adf) ==
  [k \in 1..Len(adf) |->
     IF adf[k].classification \in DemotedLabels
       THEN [adf[k] EXCEPT !.is_anomaly = 0]
       ELSE adf[k]]

\* process_file handing a row of anomalies_df to apply_dependent_anomaly_filter
filter_row(row, enabled) ==
  LET out == apply_dependent_anomaly_filter(
                [log |-> Text(row.log), classification |-> row.classification,
                 reason |-> row.reason, is_anomaly |-> row.is_anomaly], enabled)
  IN [row EXCEPT !.classification = out.classification, !.reason = out.reason,
                 !.is_anomaly = out.is_anomaly]

\* the lines of the rows explored after candidate selection
FinalLogs == {"db error x", "at x", "disk full now"}

\* process_file just before classify_anomalies is called: every row of df is
\* flagged, the rule-matched ones are rule-based, the others are candidates
InitFinalFile ==
  /\ custom_rule_patterns = load_custom_patterns(<<>>)
  /\ ROLLING_WINDOW_SIZE = 1000
  /\ NoBehavioralRules
  /\ \E len \in 1..MaxCands :
       df \in {[k \in 1..len |->
                  apply_rule_based_classification(
                    [LoadedRow(k, [log |-> logs[k], day |-> 1]) EXCEPT
                       !.is_anomaly = 1, !.anomaly_score = len + 1 - k])] :
               logs \in [1..len -> FinalLogs]}
  /\ TOP_N_LLM = MaxCands
  /\ anomalies_df = select_candidates(df, TOP_N_LLM)
  /\ ppc = "selected"
  /\ final_anomalies = <<>>

\* classify_anomalies(anomalies_df) returned and its lists are assigned to the
\* columns by position; with no candidates the call is skipped
classify ==
  /\ ppc = "selected"
  /\ \E labels \in [1..Len(anomalies_df) -> StageLabels] :
       anomalies_df' = [k \in 1..Len(anomalies_df) |->
                          [anomalies_df[k] EXCEPT !.classification = labels[k],
                                                  !.reason = "llm",
                                                  !.anomaly_source = "LLM"]]
  /\ ppc' = "classified"
  /\ UNCHANGED <<df, TOP_N_LLM, final_anomalies, custom_rule_patterns,
               ROLLING_WINDOW_SIZE, behavioral_rules, has_timestamp,
               behavioral_anomalies>>
  /\ UNCHANGED notFile

\* anomalies_df.apply(apply_dependent_anomaly_filter, axis=1) when the flag is on
dependent_filter ==
  /\ ppc = "classified"
  /\ anomalies_df' =
       IF ENABLE_DEPENDENT_ANOMALY_FILTER
         THEN [k \in 1..Len(anomalies_df) |->
                 filter_row(anomalies_df[k], ENABLE_DEPENDENT_ANOMALY_FILTER)]
         ELSE anomalies_df
  /\ ppc' = "filtered"
  /\ UNCHANGED <<df, TOP_N_LLM, final_anomalies, custom_rule_patterns,
               ROLLING_WINDOW_SIZE, behavioral_rules, has_timestamp,
               behavioral_anomalies>>
  /\ UNCHANGED notFile

\* "Remove logs that LLM classified as non-anomalous or uncertain"
demote ==
  /\ ppc = "filtered"
  /\ anomalies_df' = demote_rows(anomalies_df)
  /\ ppc' = "demoted"
  /\ UNCHANGED <<df, TOP_N_LLM, final_anomalies, custom_rule_patterns,
               ROLLING_WINDOW_SIZE, behavioral_rules, has_timestamp,
               behavioral_anomalies>>
  /\ UNCHANGED notFile

(* ------------------ utils.evaluate_behavioral_rules -------------------- *)

\* largest number of rows handed to evaluate_behavioral_rules alone
MaxEvents == 3

\* the timestamp pd.to_datetime(errors="coerce") gives a value it cannot
\* parse; sort_values puts it after every time
NaT == 99

\* utils.redact_security_leaks on the lines explored: only the line with
\* "token abc" holds something one of its three substitutions finds
redact_security_leaks(log_line) ==
  IF log_line = "login failed token abc"
    THEN "login failed token <REDACTED>"
    ELSE log_line

\* mutant: every rule is evaluated as a count rule
rule_type_always_count(rule) == "count"

\* rtype = rule.get("type", "count")
rule_type(rule) == rule.type

\* g = group_df.sort_values("timestamp").reset_index(): the positions in d of
\* the rows of S in ascending time (rows of equal time in the order of d)
RECURSIVE sort_values(_, _)
sort_values(d, S) ==
  IF S = {}
    THEN <<>>
    ELSE LET m == CHOOSE k \in S :
                    \A j \in S : d[k].ts < d[j].ts \/ (d[k].ts = d[j].ts /\ k <= j)
         IN <<m>> \o sort_values(d, S \ {m})

\* "while left <= i and timestamps[left] < ts - window_td: left += 1"
RECURSIVE move_left(_, _, _, _, _)
move_left(d, g, left, i, window_minutes) ==
  IF left <= i /\ d[g[left]].ts < d[g[i]].ts - window_minutes
    THEN move_left(d, g, left + 1, i, window_minutes)
    ELSE left

\* mutant: the loop goes on after the threshold was reached
RECURSIVE count_loop_no_break(_, _, _, _, _)
count_loop_no_break(d, g, i, left, rule) ==
  IF i > Len(g)
    THEN <<>>
    ELSE IF d[g[i]].ts = NaT
      THEN count_loop_no_break(d, g, i + 1, left, rule)
      ELSE LET l2 == move_left(d, g, left, i, rule.window_minutes)
               cnt == i - l2 + 1
           IN IF cnt >= rule.threshold
                THEN <<[count |-> cnt, matched_indices |-> {g[k] : k \in l2..i}]>>
                       \o count_loop_no_break(d, g, i + 1, l2, rule)
                ELSE count_loop_no_break(d, g, i + 1, l2, rule)

\* the loop of a count rule over the sorted rows g of one group, from row i
\* on with the left pointer at left: at most one hit, the loop breaks on it
RECURSIVE count_loop(_, _, _, _, _)
count_loop(d, g, i, left, rule) ==
  IF i > Len(g)
    THEN <<>>
    ELSE IF d[g[i]].ts = NaT
      THEN count_loop(d, g, i + 1, left, rule)
      ELSE LET l2 == move_left(d, g, left, i, rule.window_minutes)
               cnt == i - l2 + 1
           IN IF cnt >= rule.threshold
                THEN <<[count |-> cnt, matched_indices |-> {g[k] : k \in l2..i}]>>
                ELSE count_loop(d, g, i + 1, l2, rule)

\* the values of the group_by column, in the order groupby yields the groups
Users == <<"u1", "u2">>

\* pattern_filter_series: the rows of d the rule looks at
filtered_rows(d, rule) ==
  {k \in 1..Len(d) : rule.pattern = "none" \/ Matches(rule.pattern, d[k].log)}

\* the loop of a ratio rule over the sorted rows all_group of the whole
\* group, from row i_all on: total_count runs over positions left_all..i_all,
\* matched_count over the rows of g whose time lies between the times of
\* these two positions. threshold_ratio is in percent. The record holds the
\* two counts the ratio is computed from.
RECURSIVE ratio_loop(_, _, _, _, _, _)
ratio_loop(d, g, all_group, i_all, left_all, rule) ==
  IF i_all > Len(all_group)
    THEN <<>>
    ELSE IF d[all_group[i_all]].ts = NaT
      THEN ratio_loop(d, g, all_group, i_all + 1, left_all, rule)
      ELSE LET l2 == move_left(d, all_group, left_all, i_all, rule.window_minutes)
               total_count == i_all - l2 + 1
               window_start == d[all_group[l2]].ts
               window_end == d[all_group[i_all]].ts
               mask == {k \in 1..Len(g) :
                          d[g[k]].ts >= window_start /\ d[g[k]].ts <= window_end}
               matched_count == Cardinality(mask)
           IN IF 100 * matched_count >= rule.threshold_ratio * total_count
                THEN <<[count |-> <<matched_count, total_count>>,
                        matched_indices |-> {g[k] : k \in mask}]>>
                ELSE ratio_loop(d, g, all_group, i_all + 1, l2, rule)

\* the rows the denominator of a ratio rule is counted over: the rows of df
\* of the group, or all of df for the synthetic group
all_group_rows(d, rule, group_key) ==
  IF rule.group_by = "user" /\ group_key # "None"
    THEN sort_values(d, {k \in 1..Len(d) : d[k].user = group_key})
    ELSE sort_values(d, 1..Len(d))

\* one group of one rule: the anomalies it appends
evaluate_group(d, rule, group_key, S) ==
  LET g == sort_values(d, S)
      hits == CASE rule_type(rule) = "count" -> count_loop(d, g, 1, 1, rule)
                [] rule_type(rule) = "ratio" ->
                     ratio_loop(d, g, all_group_rows(d, rule, group_key), 1, 1, rule)
                [] OTHER -> <<>>
  IN [h \in 1..Len(hits) |->
        [rule |-> rule.name, group |-> group_key, count |-> hits[h].count,
         matched_indices |-> hits[h].matched_indices]]

\* the groups of one rule from the u-th value of the group_by column on;
\* groupby yields no empty group
RECURSIVE evaluate_groups(_, _, _)
evaluate_groups(d, rule, u) ==
  IF u > Len(Users)
    THEN <<>>
    ELSE LET S == {k \in filtered_rows(d, rule) : d[k].user = Users[u]} IN
         (IF S = {} THEN <<>> ELSE evaluate_group(d, rule, Users[u], S))
           \o evaluate_groups(d, rule, u + 1)

\* one rule: grouped by the column, or one synthetic group with key None
evaluate_rule(d, rule) ==
  IF rule.group_by = "user"
    THEN evaluate_groups(d, rule, 1)
    ELSE evaluate_group(d, rule, "None", filtered_rows(d, rule))

RECURSIVE evaluate_rules_from(_, _, _)
evaluate_rules_from(d, rules, r) ==
  IF r > Len(rules)
    THEN <<>>
    ELSE evaluate_rule(d, rules[r]) \o evaluate_rules_from(d, rules, r + 1)

\* utils.evaluate_behavioral_rules(df, behavioral_rules); timestamp_column
\* says whether df has the column. The rule types explored are count, ratio
\* and a type the function does not know.
evaluate_behavioral_rules(d, rules, timestamp_column) ==
  IF Len(d) = 0 \/ Len(rules) = 0
    THEN <<>>
    ELSE IF ~timestamp_column
      THEN <<>>
      ELSE evaluate_rules_from(d, rules, 1)

\* "behavioral_" + rule_name.lower().replace(" ", "_")
behavioral_tag(rule_name) ==
  CASE rule_name = "Failed Logins" -> "behavioral_failed_logins"
    [] rule_name = "Leaked Token" -> "behavioral_leaked_token"
    [] rule_name = "Burst" -> "behavioral_burst"
    [] rule_name = "Failure Ratio" -> "behavioral_failure_ratio"

\* process_file marking the rows of one anomaly
mark_behavioral(d, anomaly) ==
  [k \in 1..Len(d) |->
     IF k \in anomaly.matched_indices
       THEN [d[k] EXCEPT
               !.is_behavioral = TRUE,
               !.behavioral_rule = anomaly.rule,
               !.is_anomaly = 1,
               !.anomaly_source = "Behavioral",
               !.classification = IF @ = "none" THEN "Behavioral Anomaly" ELSE @,
               !.reason = IF @ = "none" THEN "Behavioral rule triggered" ELSE @,
               !.tag = Append(@, behavioral_tag(anomaly.rule))]
       ELSE d[k]]

RECURSIVE mark_all(_, _, _)
mark_all(d, anomalies, a) ==
  IF a > Len(anomalies) THEN d ELSE mark_all(mark_behavioral(d, anomalies[a]), anomalies, a + 1)

\* df["log"] = df["log"].apply(redact_security_leaks)
redact ==
  /\ ppc = "demoted"
  /\ df' = [k \in 1..Len(df) |-> [df[k] EXCEPT !.log = redact_security_leaks(@)]]
  /\ ppc' = "redacted"
  /\ UNCHANGED <<anomalies_df, TOP_N_LLM, final_anomalies, custom_rule_patterns,
               ROLLING_WINDOW_SIZE, behavioral_rules, has_timestamp,
               behavioral_anomalies>>
  /\ UNCHANGED notFile

\* "if behavioral_rules:" the rules are evaluated on df and the rows of every
\* anomaly are marked
behavioral ==
  /\ ppc = "redacted"
  /\ IF Len(behavioral_rules) > 0
       THEN /\ behavioral_anomalies' =
                 evaluate_behavioral_rules(df, behavioral_rules, has_timestamp)
            /\ df' = mark_all(df, behavioral_anomalies', 1)
       ELSE UNCHANGED <<df, behavioral_anomalies>>
  /\ ppc' = "behavioral"
  /\ UNCHANGED <<anomalies_df, TOP_N_LLM, final_anomalies, custom_rule_patterns,
               ROLLING_WINDOW_SIZE, behavioral_rules, has_timestamp>>
  /\ UNCHANGED notFile

\* the rows evaluate_behavioral_rules is explored on: who, what and when
EventKinds ==
  [user : {"u1", "u2"}, log : {"login failed token abc"}, ts : {0, 1, 3}]
    \cup {[user |-> "u1", log |-> "login ok", ts |-> 1],
          [user |-> "u1", log |-> "login failed token abc", ts |-> NaT]}

EventRow(k, kind) ==
  [LoadedRow(k, [log |-> kind.log, day |-> 1]) EXCEPT !.ts = kind.ts, !.user = kind.user]

\* the count rules explored
CountRules ==
  [name : {"Failed Logins"}, type : {"count"}, group_by : {"user", "none"},
   window_minutes : {1, 2}, threshold : {2, 3}, pattern : {"failed"}]
    \cup {[name |-> "Leaked Token", type |-> "count", group_by |-> "none",
           window_minutes |-> 2, threshold |-> 2, pattern |-> "token abc"]}

\* a rule of a type evaluate_behavioral_rules does not know
UnknownRule ==
  [name |-> "Burst", type |-> "burst", group_by |-> "none", window_minutes |-> 2,
   threshold |-> 1, pattern |-> "none"]

\* the rule sets explored
RuleSets ==
  {<<r>> : r \in CountRules} \cup {<<UnknownRule, r>> : r \in CountRules}
    \cup {<<r, UnknownRule>> : r \in CountRules}

\* process_file just before the redaction, behavioral detection being on
InitBehaviorFile ==
  /\ custom_rule_patterns = load_custom_patterns(<<>>)
  /\ ROLLING_WINDOW_SIZE = 1000
  /\ \/ has_timestamp = TRUE /\ behavioral_rules \in RuleSets
     \/ /\ has_timestamp = FALSE
        /\ behavioral_rules \in {<<r>> : r \in {c \in CountRules : c.threshold = 2}}
  /\ behavioral_anomalies = <<>>
  /\ \E len \in 0..MaxEvents :
       df \in {[k \in 1..len |-> EventRow(k, kinds[k])] : kinds \in [1..len -> EventKinds]}
  /\ anomalies_df = <<>>
  /\ TOP_N_LLM = 1
  /\ ppc = "demoted"
  /\ final_anomalies = <<>>

NextBehavior == redact \/ behavioral

\* the ratio rules explored, threshold_ratio in percent
RatioRules ==
  [name : {"Failure Ratio"}, type : {"ratio"}, group_by : {"user", "none"},
   window_minutes : {1, 2}, threshold_ratio : {50, 100}, pattern : {"failed"}]

\* process_file just before the redaction, with one ratio rule loaded
InitRatioFile ==
  /\ custom_rule_patterns = load_custom_patterns(<<>>)
  /\ ROLLING_WINDOW_SIZE = 1000
  /\ has_timestamp = TRUE
  /\ behavioral_rules \in {<<r>> : r \in RatioRules}
  /\ behavioral_anomalies = <<>>
  /\ \E len \in 0..MaxEvents :
       df \in {[k \in 1..len |-> EventRow(k, kinds[k])] : kinds \in [1..len -> EventKinds]}
  /\ anomalies_df = <<>>
  /\ TOP_N_LLM = 1
  /\ ppc = "demoted"
  /\ final_anomalies = <<>>

IsRuleBased(row) == row.is_rule_based
IsAnomaly(row) == row.is_anomaly = 1

IsBehavioral(row) == row.is_behavioral

\* final_anomalies_df: the rule-based rows of df, then the rows of anomalies_df
\* with is_anomaly == 1, then the behavioral rows of df; the frame is written
\* to the anomaly file
write_anomalies ==
  /\ ppc = "behavioral"
  /\ final_anomalies' = SelectSeq(df, IsRuleBased) \o SelectSeq(anomalies_df, IsAnomaly)
                          \o SelectSeq(df, IsBehavioral)
  /\ ppc' = "written"
  /\ UNCHANGED <<df, anomalies_df, TOP_N_LLM, custom_rule_patterns, ROLLING_WINDOW_SIZE, behavioral_rules, has_timestamp,
               behavioral_anomalies>>
  /\ UNCHANGED notFile

\* largest batch taken through the whole of process_file
MaxMergeLen == 3

\* process_file just before the rolling window pass, with a window of 2 so
\* that the batches explored are longer than the window
InitMergeFile ==
  /\ custom_rule_patterns = load_custom_patterns(<<>>)
  /\ ROLLING_WINDOW_SIZE = 2
  /\ NoBehavioralRules
  /\ \E len \in 1..MaxMergeLen :
       df \in {[k \in 1..len |-> TemplateRow(k, ts[k])] : ts \in [1..len -> Templates]}
  /\ anomalies_df = <<>>
  /\ TOP_N_LLM = 1
  /\ ppc = "templates"
  /\ final_anomalies = <<>>

NextMerge ==
  \/ rolling_window \/ knn_detect \/ lof_detect \/ rule_classify \/ select
  \/ classify \/ dependent_filter \/ demote \/ redact \/ behavioral \/ write_anomalies

NextFinal ==
  classify \/ dependent_filter \/ demote \/ redact \/ behavioral \/ write_anomalies

\* lines of a file in which one line carries a token
LeakLogs == {"login failed token abc", "db error x", "disk full now"}

\* a count rule on failed logins over the whole file
FailedLoginsRule ==
  [name |-> "Failed Logins", type |-> "count", group_by |-> "none",
   window_minutes |-> 2, threshold |-> 2, pattern |-> "failed"]

\* process_file just before classify_anomalies is called, on a file with a
\* line that carries a token: every row of df is flagged, the rule-matched
\* ones are rule-based, the others are candidates
InitLeakFile ==
  /\ custom_rule_patterns = load_custom_patterns(<<>>)
  /\ ROLLING_WINDOW_SIZE = 1000
  /\ behavioral_rules \in {<<>>, <<FailedLoginsRule>>}
  /\ has_timestamp = TRUE
  /\ behavioral_anomalies = <<>>
  /\ \E len \in 1..MaxCands :
       df \in {[k \in 1..len |->
                  apply_rule_based_classification(
                    [LoadedRow(k, [log |-> logs[k], day |-> 1]) EXCEPT
                       !.is_anomaly = 1, !.anomaly_score = len + 1 - k])] :
               logs \in [1..len -> LeakLogs]}
  /\ TOP_N_LLM = MaxCands
  /\ anomalies_df = select_candidates(df, TOP_N_LLM)
  /\ ppc = "selected"
  /\ final_anomalies = <<>>

(* ===================== process_file: the summary report ================ *)

\* largest number of security incidents / of critical anomalies explored
MaxIncidents == 6
MaxCritical == 11

\* the comparisons of the risk assessment taken as "at least"
risk_assessment_inclusive(incidents, critical) ==
  IF incidents >= 5 \/ critical >= 10 THEN "HIGH"
  ELSE IF incidents >= 2 \/ critical >= 5 THEN "MEDIUM"
  ELSE "LOW"

\* risk_level = "LOW"; if ...: "HIGH"; elif ...: "MEDIUM"
risk_assessment(incidents, critical) ==
  IF incidents > 5 \/ critical > 10 THEN "HIGH"
  ELSE IF incidents > 2 \/ critical > 5 THEN "MEDIUM"
  ELSE "LOW"

InitReport ==
  /\ security_incidents \in 0..MaxIncidents
  /\ critical_anomalies \in 0..MaxCritical
  /\ risk_level = "unset"
  /\ rpc = "counts"

IdleReport ==
  /\ security_incidents = 0
  /\ critical_anomalies = 0
  /\ risk_level = "unset"
  /\ rpc = "idle"

\* the risk assessment of the report
assess_risk ==
  /\ rpc = "counts"
  /\ risk_level' = risk_assessment(security_incidents, critical_anomalies)
  /\ rpc' = "assessed"
  /\ UNCHANGED <<security_incidents, critical_anomalies>>
  /\ UNCHANGED notReport

NextReport == assess_risk

(* =================== process_file: the record_id ======================= *)

\* largest number of rows of final_anomalies_df explored
MaxWritten == 2

\* the timestamp column as it reaches the writing loop
Timestamps ==
  {"2024-01-01T10:00:00", "2024-01-01 10:00:00.123456", "2024-01-01 10:00:00.123"}

\* timestamp.replace("T", " "), then the fraction cut to three digits, or
\* ".000" appended when there is no fraction
normalize_timestamp(timestamp) ==
  CASE timestamp = "2024-01-01T10:00:00"        -> "2024-01-01 10:00:00.000"
    [] timestamp = "2024-01-01 10:00:00.123456" -> "2024-01-01 10:00:00.123"
    [] timestamp = "2024-01-01 10:00:00.123"    -> "2024-01-01 10:00:00.123"

WrittenLogs == {"disk full ", "db down"}

\* str(record.get("log", "")).strip()
log_content(log) ==
  CASE log = "disk full " -> "disk full"
    [] log = "db down"    -> "db down"

Contents == {log_content(l) : l \in WrittenLogs}

\* values hash() can take on a string: str hashing is salted with a value
\* chosen when the interpreter starts, so the value is fixed within one
\* process and differs from one process to the next
HashValues == {112345678, -212345678, 387654321}

\* str(h)[-8:], the last eight characters of the decimal representation
last8(h) == (IF h < 0 THEN -h ELSE h) % 100000000

\* record["record_id"] = f"{timestamp}_{log_hash}"
record_id(row, hash) ==
  <<normalize_timestamp(row.timestamp), last8(hash[log_content(row.log)])>>

WrittenRows == [timestamp : Timestamps, log : WrittenLogs]

InitWrite ==
  /\ run = 1
  /\ str_hash \in [Contents -> HashValues]
  /\ records \in UNION {[1..k -> WrittenRows] : k \in 1..MaxWritten}
  /\ written = [r \in 1..2 |-> <<>>]
  /\ wpc = "writing"

IdleWrite ==
  /\ run = 1
  /\ str_hash = [c \in Contents |-> 112345678]
  /\ records = <<>>
  /\ written = [r \in 1..2 |-> <<>>]
  /\ wpc = "idle"

\* one iteration of "for _, row in final_anomalies_df.iterrows()"
write_record ==
  /\ wpc = "writing"
  /\ Len(written[run]) < Len(records)
  /\ written' = [written EXCEPT ![run] =
                   Append(@, record_id(records[Len(written[run]) + 1], str_hash))]
  /\ UNCHANGED <<run, str_hash, records, wpc>>
  /\ UNCHANGED notWrite

\* the loop is over and the file is closed
close_file ==
  /\ wpc = "writing"
  /\ Len(written[run]) = Len(records)
  /\ wpc' = "closed"
  /\ UNCHANGED <<run, str_hash, records, written>>
  /\ UNCHANGED notWrite

\* the program is started again on the same input
run_again ==
  /\ wpc = "closed"
  /\ run = 1
  /\ run' = 2
  /\ str_hash' \in [Contents -> HashValues]
  /\ wpc' = "writing"
  /\ UNCHANGED <<records, written>>
  /\ UNCHANGED notWrite

NextWrite == write_record \/ close_file \/ run_again

(* ===================== retry.py: the backoff delay ===================== *)

\* largest RetryConfig.max_attempts explored
MaxAttemptsCfg == 6
\* random.random() takes the values g / RandomGrid, g in 0..RandomGrid-1
RandomGrid == 4

\* RetryConfig(): max_attempts 3, initial_delay 1.0 s, max_delay 10.0 s,
\* backoff_factor 2.0, jitter 0.1
DefaultRetryConfig ==
  [max_attempts |-> 3, initial_delay |-> 1000, max_delay |-> 10000,
   backoff_factor |-> 2, jitter |-> 10]

RetryConfigs ==
  [max_attempts : {3, MaxAttemptsCfg}, initial_delay : {1000, 500},
   max_delay : {10000}, backoff_factor : {2, 3}, jitter : {0, 10, 50}]

RECURSIVE Pow(_, _)
Pow(b, e) == IF e = 0 THEN 1 ELSE b * Pow(b, e - 1)

\* the exponent taken as the number of failed attempts
get_delay_exponent_attempts(cfg, att, g) ==
  LET d == Min(cfg.initial_delay * Pow(cfg.backoff_factor, att), cfg.max_delay)
      jitter == (cfg.jitter * d * (2 * g - RandomGrid)) \div (100 * RandomGrid)
  IN Max(0, d + jitter)

\* RetryState.get_delay, random.random() = g / RandomGrid
get_delay(cfg, att, g) ==
  LET d == Min(cfg.initial_delay * Pow(cfg.backoff_factor, att - 1), cfg.max_delay)
      jitter == (cfg.jitter * d * (2 * g - RandomGrid)) \div (100 * RandomGrid)
  IN Max(0, d + jitter)

InitRetry ==
  /\ config \in RetryConfigs
  /\ rs_attempts = 0
  /\ delay = 0
  /\ wrpc = "attempt"

IdleRetry ==
  /\ config = DefaultRetryConfig
  /\ rs_attempts = 0
  /\ delay = 0
  /\ wrpc = "idle"

\* the operation raises a retryable error: should_retry counts the attempt
\* and either the error is re-raised or get_delay is slept
attempt_fails ==
  /\ wrpc = "attempt"
  /\ rs_attempts' = rs_attempts + 1
  /\ IF rs_attempts + 1 >= config.max_attempts
       THEN wrpc' = "raised" /\ UNCHANGED delay
       ELSE /\ wrpc' = "sleep"
            /\ \E g \in 0..(RandomGrid - 1) :
                 delay' = get_delay(config, rs_attempts + 1, g)
  /\ UNCHANGED config
  /\ UNCHANGED notRetry

\* asyncio.sleep(delay) is over
sleep_over ==
  /\ wrpc = "sleep"
  /\ wrpc' = "attempt"
  /\ UNCHANGED <<config, rs_attempts, delay>>
  /\ UNCHANGED notRetry

\* the operation returns
attempt_succeeds ==
  /\ wrpc = "attempt"
  /\ wrpc' = "returned"
  /\ UNCHANGED <<config, rs_attempts, delay>>
  /\ UNCHANGED notRetry

NextRetry == attempt_fails \/ sleep_over \/ attempt_succeeds

(* ==================== processor.process_all_files ====================== *)

\* largest number of files in the input folder explored
MaxFiles == 2

\* the first file of the folder is being processed
FirstFile ==
  /\ file_no = 1
  /\ stats_at_start = [total_calls |-> 0, errors |-> 0]

\* "for file in files: process_file(file)": the report of the file is
\* written and process_file of the next file calls classify_anomalies on
\* its candidates, with a new semaphore and a new session. LLM_STATS is a
\* module global that no one resets.
next_file ==
  /\ mainpc = "returned"
  /\ file_no < MaxFiles
  /\ file_no' = file_no + 1
  /\ stats_at_start' = LLM_STATS
  /\ n' \in 1..MaxCands
  /\ sem' = CONCURRENCY
  /\ pc' = [i \in Cands |-> IF i <= n' THEN "queued" ELSE "absent"]
  /\ attempts' = [i \in Cands |-> 0]
  /\ calls' = [i \in Cands |-> <<>>]
  /\ results' = [i \in Cands |-> NoResult]
  /\ mainpc' = "gather"
  /\ first_done' = 0
  /\ acquired' = {}
  /\ posts' = [i \in Cands |-> 0]
  /\ UNCHANGED <<CONCURRENCY, LLM_STATS, returned>>
  /\ UNCHANGED <<filterVars, fileVars, reportVars, writeVars, retryVars>>

(* --------------------------- specifications ---------------------------- *)

Init == InitStage /\ IdleFilter /\ IdleFile /\ IdleReport /\ IdleWrite /\ IdleRetry /\ FirstFile

Next ==
  \/ \E i \in Rows : bounded_classify(i)
  \/ \E i \in Rows : post_outer(i)
  \/ \E i \in Rows : post_inner(i)
  \/ \E i \in Rows : backoff_over(i)
  \/ gather_returns

Spec == Init /\ [][Next]_vars

\* The event loop keeps running while a task is ready: as long as some task
\* can take its next step, a step is taken. A request that is waiting is
\* ended by its timeout at the latest, and a sleep ends.
Fairness == WF_vars(Next)

SpecLive == Init /\ [][Next]_vars /\ Fairness

NextBatch ==
  \/ \E i \in Rows : bounded_classify(i)
  \/ \E i \in Rows : post_outer(i)
  \/ \E i \in Rows : post_inner(i)
  \/ \E i \in Rows : backoff_over(i)
  \/ gather_returns
  \/ next_file

SpecBatch == Init /\ [][NextBatch]_vars

NextFilter == call_filter

InitFilterOnly == IdleStage /\ InitFilter /\ IdleFile /\ IdleReport /\ IdleWrite /\ IdleRetry /\ FirstFile

SpecFilter == InitFilterOnly /\ [][NextFilter]_vars

InitPipeline == IdleStage /\ IdleFilter /\ InitFile /\ IdleReport /\ IdleWrite /\ IdleRetry /\ FirstFile

SpecPipeline == InitPipeline /\ [][NextFile]_vars

InitFlood == IdleStage /\ IdleFilter /\ InitFloodFile /\ IdleReport /\ IdleWrite /\ IdleRetry /\ FirstFile

SpecFlood == InitFlood /\ [][NextFlood]_vars

InitBehavior == IdleStage /\ IdleFilter /\ InitBehaviorFile /\ IdleReport /\ IdleWrite /\ IdleRetry /\ FirstFile

SpecBehavior == InitBehavior /\ [][NextBehavior]_vars

InitRatio == IdleStage /\ IdleFilter /\ InitRatioFile /\ IdleReport /\ IdleWrite /\ IdleRetry /\ FirstFile

SpecRatio == InitRatio /\ [][NextBehavior]_vars

InitDetect == IdleStage /\ IdleFilter /\ InitDetectFile /\ IdleReport /\ IdleWrite /\ IdleRetry /\ FirstFile

SpecDetect == InitDetect /\ [][NextDetect]_vars

InitRules == IdleStage /\ IdleFilter /\ InitRulesFile /\ IdleReport /\ IdleWrite /\ IdleRetry /\ FirstFile

SpecRules == InitRules /\ [][NextRules]_vars

\* the dependent filter is switched off in the configuration
InitMerge ==
  /\ IdleStage
  /\ ENABLE_DEPENDENT_ANOMALY_FILTER = FALSE
  /\ row_in = [log |-> <<>>, classification |-> "Unknown", reason |-> "r", is_anomaly |-> 0]
  /\ row_out = row_in
  /\ fpc = "idle"
  /\ InitMergeFile
  /\ IdleReport /\ IdleWrite /\ IdleRetry /\ FirstFile

SpecMerge == InitMerge /\ [][NextMerge]_vars

InitFinal ==
  /\ IdleStage
  /\ ENABLE_DEPENDENT_ANOMALY_FILTER \in BOOLEAN
  /\ row_in = [log |-> <<>>, classification |-> "Unknown", reason |-> "r", is_anomaly |-> 0]
  /\ row_out = row_in
  /\ fpc = "idle"
  /\ InitFinalFile
  /\ IdleReport /\ IdleWrite /\ IdleRetry /\ FirstFile

SpecFinal == InitFinal /\ [][NextFinal]_vars

InitLeak ==
  /\ IdleStage
  /\ ENABLE_DEPENDENT_ANOMALY_FILTER \in BOOLEAN
  /\ row_in = [log |-> <<>>, classification |-> "Unknown", reason |-> "r", is_anomaly |-> 0]
  /\ row_out = row_in
  /\ fpc = "idle"
  /\ InitLeakFile
  /\ IdleReport /\ IdleWrite /\ IdleRetry /\ FirstFile

SpecLeak == InitLeak /\ [][NextFinal]_vars

InitRisk == IdleStage /\ IdleFilter /\ IdleFile /\ InitReport /\ IdleWrite /\ IdleRetry /\ FirstFile

SpecReport == InitRisk /\ [][NextReport]_vars

InitRecordId ==
  IdleStage /\ IdleFilter /\ IdleFile /\ IdleReport /\ InitWrite /\ IdleRetry /\ FirstFile

SpecRecordId == InitRecordId /\ [][NextWrite]_vars

InitBackoff ==
  IdleStage /\ IdleFilter /\ IdleFile /\ IdleReport /\ IdleWrite /\ InitRetry /\ FirstFile

SpecBackoff == InitBackoff /\ [][NextRetry]_vars

(* ====================== properties of the filter ======================= *)

\* the row the filter writes for a stack-trace line
Reclassified(row) ==
  [row EXCEPT !.classification = "Dependent Anomaly",
              !.reason = "Stack trace line, follows an actual error.",
              !.is_anomaly = 0]

C7_UncertainDemoted ==
  ppc = "written" =>
    \A k \in 1..Len(anomalies_df) :
      anomalies_df[k].classification \in {"Routine", "Normal", "Unknown"} =>
        /\ anomalies_df[k].is_anomaly = 0
        /\ \A j \in 1..Len(final_anomalies) :
             final_anomalies[j].orig # anomalies_df[k].orig

\* the rows of df that a detector flagged and no rule pattern matches
StatAnomaly(row) ==
  row.is_anomaly = 1 /\ ~rule_based_classification(row.log, custom_rule_patterns).matched

\* C9: no selected candidate is rule-classified or allow-listed after
\* normalisation; every candidate is a flagged row of df with fewer than
\* TOP_N_LLM flagged, not rule-matched rows scoring higher, so at most
\* TOP_N_LLM candidates are selected.
C9_CandidateSelection ==
  ppc = "selected" =>
    /\ Len(anomalies_df) <= TOP_N_LLM
    /\ \A k \in 1..Len(anomalies_df) :
         LET c == anomalies_df[k] IN
         /\ ~c.is_rule_based
         /\ ~rule_based_classification(c.log, custom_rule_patterns).matched
         /\ \A entry \in NonAnomalousEntries : clean_log_line(entry) # clean_log_line(c.log)
         /\ c.idx \in 1..Len(df)
         /\ df[c.idx].orig = c.orig
         /\ StatAnomaly(df[c.idx])
         /\ Cardinality({j \in 1..Len(df) :
                           StatAnomaly(df[j]) /\ df[j].anomaly_score > c.anomaly_score})
              < TOP_N_LLM

\* C9 witness: a candidate was selected although a rule-classified row scores
\* higher and an allow-listed row was flagged too
C9_Witness ==
  /\ ppc = "selected"
  /\ Len(anomalies_df) = 1
  /\ \E j \in 1..Len(df) :
       df[j].is_rule_based /\ df[j].anomaly_score > anomalies_df[1].anomaly_score
  /\ \E j \in 1..Len(df) :
       /\ df[j].log = "[a] job ok"
       /\ df[j].is_anomaly = 1
       /\ df[j].anomaly_score > anomalies_df[1].anomaly_score

Abs(x) == IF x < 0 THEN -x ELSE x

\* C10 (as claimed): every record of a candidate's context window lies within
\* the window in the original order of the batch and has the candidate's day.
C10_ContextIsNearby ==
  ppc = "selected" =>
    \A k \in 1..Len(anomalies_df) :
      LET c == anomalies_df[k] IN
      \A m \in 1..Len(c.context_logs) :
        /\ Abs(c.context_logs[m].orig - c.orig) <= ContextWindow
        /\ c.context_logs[m].day = c.day

(* =================== properties of the rule pass ======================= *)

\* the positions of the rules of the list whose pattern matches the line
MatchingRules(log_line, pats) == {j \in 1..Len(pats) : Matches(pats[j].pattern, log_line)}

FirstOf(S) == CHOOSE j \in S : \A h \in S : j <= h

IsValidRule(rule) == ValidRegex(rule.pattern)

\* C13 (as claimed): with a pattern that does not compile in the list, the rule
\* pass does not fail and classifies every row as the list without that
\* pattern classifies it.
C13_InvalidPatternSkipped ==
  /\ ppc # "failed"
  /\ ppc = "rules" =>
       \A k \in 1..Len(df) :
         LET r == rule_based_classification(df[k].log,
                                            SelectSeq(custom_rule_patterns, IsValidRule))
         IN /\ df[k].is_rule_based = r.matched
            /\ r.matched => df[k].reason = r.reason /\ df[k].tag = <<r.name>>

(* ================ properties of the rolling window ===================== *)

\* the maximal runs <<a, b>> of rows a..b with one template in the batch of
\* templates ts
Runs(ts) ==
  {ab \in (1..Len(ts)) \X (1..Len(ts)) :
     /\ ab[1] <= ab[2]
     /\ \A k \in ab[1]..ab[2] : ts[k] = ts[ab[1]]
     /\ ab[1] > 1 => ts[ab[1] - 1] # ts[ab[1]]
     /\ ab[2] < Len(ts) => ts[ab[2] + 1] # ts[ab[1]]}

\* C14 (as claimed): for every run of one template of at least
\* threshold * window_size rows, the result of rolling_window_chunking holds
\* exactly one summary for the run, covering exactly its rows, with the run
\* length as count.
C14_OneSummaryPerRun ==
  [][(ppc = "templates" /\ ppc' = "loaded") =>
       LET ts == [k \in 1..Len(df) |-> df[k].log_template] IN
       \A ab \in Runs(ts) :
         (ab[2] - ab[1] + 1) * THRESHOLD_DEN >= THRESHOLD_NUM * ROLLING_WINDOW_SIZE =>
           Cardinality({k \in 1..Len(df') :
                          /\ df'[k].anomaly_source = "FLOOD"
                          /\ df'[k].flood_rows = ab[1]..ab[2]
                          /\ df'[k].flood_count = ab[2] - ab[1] + 1}) = 1]_vars

(* =================== properties of the detectors ======================= *)

\* C17: on a batch of fewer than two rows detect_knn_anomalies and
\* detect_anomalies_lof leave every score at 0 and no row marked is_anomaly.
C17_SmallBatchNoAnomaly ==
  (Len(df) < 2 /\ ppc \in {"knn", "lof"}) =>
    \A k \in 1..Len(df) :
      /\ df[k].anomaly_score = 0
      /\ df[k].is_anomaly = 0
      /\ ppc = "lof" => df[k].lof_score = 0

\* C17 witness: both detectors ran on a batch of one row
C17_Witness ==
  /\ ppc = "lof"
  /\ Len(df) = 1
  /\ df[1].is_anomaly = 0

\* ceil(num / den) for positive den
CeilDiv(num, den) == (num + den - 1) \div den

Marked(d) == {k \in 1..Len(d) : d[k].is_anomaly = 1}

\* C18 (as claimed): on n >= 2 rows detect_knn_anomalies marks exactly
\* max(1, ceil(top_percent * n)) rows, those with the highest scores.
C18_TopPercentMarked ==
  (ppc = "knn" /\ Len(df) >= 2) =>
    /\ Cardinality(Marked(df)) = Max(1, CeilDiv(TOP_PERCENT_NUM * Len(df), TOP_PERCENT_DEN))
    /\ \A k \in Marked(df) : \A j \in (1..Len(df)) \ Marked(df) :
         df[k].anomaly_score >= df[j].anomaly_score

(* ================ properties of the behavioral rules =================== *)

\* the group keys a rule can have
GroupKeys(rule) == IF rule.group_by = "user" THEN {"u1", "u2"} ELSE {"None"}

\* the rows of d that are events of the group for the rule: they pass the
\* pattern filter, belong to the group and have a time
GroupEvents(d, rule, key) ==
  {k \in filtered_rows(d, rule) :
     /\ rule.group_by = "user" => d[k].user = key
     /\ d[k].ts # NaT}

\* some window of window_minutes holds at least threshold events of the group
ThresholdReached(d, rule, key) ==
  \E s \in GroupEvents(d, rule, key) :
    Cardinality({k \in GroupEvents(d, rule, key) :
                   d[s].ts <= d[k].ts /\ d[k].ts <= d[s].ts + rule.window_minutes})
      >= rule.threshold

AnomaliesOf(anomalies, rule, key) ==
  {a \in 1..Len(anomalies) : anomalies[a].rule = rule.name /\ anomalies[a].group = key}

\* C15: evaluating the rules, a count rule yields exactly one anomaly for a
\* group when some window of window_minutes holds at least threshold events of
\* the group after the pattern filter, and none for the group otherwise.
C15_CountRuleFiresOnce ==
  [][(ppc = "redacted" /\ ppc' = "behavioral" /\ has_timestamp) =>
       \A r \in 1..Len(behavioral_rules) :
         behavioral_rules[r].type = "count" =>
           \A key \in GroupKeys(behavioral_rules[r]) :
             Cardinality(AnomaliesOf(behavioral_anomalies', behavioral_rules[r], key))
               = IF ThresholdReached(df, behavioral_rules[r], key) THEN 1 ELSE 0]_vars

\* C15 witness: three events of one user within the window, a threshold of 2,
\* and one anomaly for the group; the other user's group has none
C15_Witness ==
  /\ ppc = "behavioral"
  /\ Len(df) = 3
  /\ \A k \in 1..2 : df[k].user = "u1" /\ df[k].ts \in {0, 1} /\ df[k].is_behavioral
  /\ df[3].user = "u2" /\ ~df[3].is_behavioral
  /\ behavioral_rules[1].group_by = "user"
  /\ behavioral_rules[1].threshold = 2
  /\ Len(behavioral_anomalies) = 1
  /\ behavioral_anomalies[1].group = "u1"

IsKnownType(rule) == rule.type = "count"

\* C16: without the timestamp column the evaluation returns an empty list; a
\* rule of an unknown type yields no anomaly and the anomalies of the
\* evaluation are those of the rule set without that rule.
C16_UnevaluableRuleSkipped ==
  [][(ppc = "redacted" /\ ppc' = "behavioral") =>
       /\ ~has_timestamp => behavioral_anomalies' = <<>>
       /\ \A a \in 1..Len(behavioral_anomalies') :
            behavioral_anomalies'[a].rule # UnknownRule.name
       /\ behavioral_anomalies' =
            evaluate_behavioral_rules(df, SelectSeq(behavioral_rules, IsKnownType),
                                      has_timestamp)]_vars

\* C16 witness: a rule of an unknown type came first in the set and the count
\* rule after it still produced its anomaly
C16_Witness ==
  /\ ppc = "behavioral"
  /\ behavioral_rules[1] = UnknownRule
  /\ Len(behavioral_rules) = 2
  /\ Len(behavioral_anomalies) = 1
  /\ behavioral_anomalies[1].rule = behavioral_rules[2].name

(* ==================== properties of the final set ====================== *)

\* a summary row the rolling window pass marked anomalous: the flood's most
\* frequent template, which the summary line quotes, holds "error"
MarkedFlood(row) == row.flood_count > 0 /\ Matches("error", row.raw_log)

\* the number of rows of the final set that are the row
TimesWritten(row) ==
  Cardinality({j \in 1..Len(final_anomalies) :
                 /\ final_anomalies[j].orig = row.orig
                 /\ final_anomalies[j].flood_rows = row.flood_rows})

\* C19 (as claimed): once the anomaly file is written, every rule-based row,
\* every candidate left with is_anomaly = 1, every behavioral row and every
\* flood summary that was marked anomalous is among the rows written.
C19_EverySourceInFinalSet ==
  ppc = "written" =>
    /\ \A k \in 1..Len(df) :
         /\ df[k].is_rule_based => TimesWritten(df[k]) >= 1
         /\ df[k].is_behavioral => TimesWritten(df[k]) >= 1
         /\ MarkedFlood(df[k]) => TimesWritten(df[k]) >= 1
    /\ \A k \in 1..Len(anomalies_df) :
         anomalies_df[k].is_anomaly = 1 => TimesWritten(anomalies_df[k]) >= 1

(* ====================== properties of the redaction ==================== *)

\* the frame with the lines as load_logs read them
RawFrame(d) == [k \in 1..Len(d) |-> [d[k] EXCEPT !.log = d[k].raw_log]]

\* C20 (as claimed): the behavioral rule evaluation, pattern filter included,
\* reads the unredacted lines: its anomalies are those the rules have on the
\* lines as they were loaded.
C20_DetectionReadsOriginal ==
  [][(ppc = "redacted" /\ ppc' = "behavioral") =>
       behavioral_anomalies' =
         evaluate_behavioral_rules(RawFrame(df), behavioral_rules, has_timestamp)]_vars

(* ====================== properties of the tags ========================= *)

\* C11 (as claimed): every tag of every tag list that classify_anomalies
\* returns is a member of VALID_TAGS.
C11_TagsOnAllowList ==
  mainpc = "returned" =>
    \A idx \in Rows :
      \A k \in 1..Len(returned.tags_list[idx]) :
        returned.tags_list[idx][k] \in VALID_TAGS

(* ====================== properties of the stage ======================== *)

InFlight == {i \in Rows : pc[i] \in {"post_outer", "post_inner", "backoff"}}

Last(seq) == seq[Len(seq)]

\* the with_retry call of task i ended by raising
TerminalFailure(i) ==
  /\ pc[i] = "done"
  /\ calls[i] # <<>>
  /\ Last(calls[i]) \in {"retryable", "fatal"}

AllRetryable(seq) == \A k \in 1..Len(seq) : seq[k] = "retryable"

\* C1: with_retry invokes the operation exactly max_attempts times when every
\* attempt fails with a retryable error and then raises; a non-retryable error
\* is raised at once, it is always the last invocation, so a non-retryable
\* first attempt gives exactly one invocation. No call sequence is longer than
\* max_attempts.
C1_RetryAttempts ==
  \A i \in Rows :
    /\ Len(calls[i]) <= max_attempts
    /\ (pc[i] = "done" /\ calls[i] # <<>> /\ AllRetryable(calls[i]))
         => (Len(calls[i]) = max_attempts /\ TerminalFailure(i))
    /\ (pc[i] # "done" /\ calls[i] # <<>>)
         => (AllRetryable(calls[i]) /\ Len(calls[i]) < max_attempts)
    /\ \A k \in 1..Len(calls[i]) :
         calls[i][k] = "fatal" => (k = Len(calls[i]) /\ TerminalFailure(i))

\* C1 witness: one task exhausted its three attempts on retryable errors and
\* another stopped after a single non-retryable failure
C1_Witness ==
  \E i, j \in Rows :
    /\ pc[i] = "done" /\ calls[i] = <<"retryable", "retryable", "retryable">>
    /\ pc[j] = "done" /\ calls[j] = <<"fatal">>

\* the labels classify_log_llm can return for a task with call history c
LabelsFor(c) ==
  IF c = <<>> THEN {"Sensitive Information Leak", "Error"}
  ELSE CASE Last(c) = "ok" -> {extract_tags(r) : r \in Replies} \cup {"Error"}
         [] Last(c) \in {"timeout", "badjson"} -> {"Unknown"}
         [] OTHER -> {"Error"}

\* C2: a candidate whose call sequence ends in terminal failure never makes
\* classify_anomalies raise; its slot holds the classification "Error"; the
\* call returns one result per candidate, and every candidate's result is
\* decided by its own call history alone.
C2_FailureIsolated ==
  /\ mainpc # "raised"
  /\ \A i \in Rows : TerminalFailure(i) =>
        (results[i].label = "Error" /\ results[i].cand = i)
  /\ mainpc = "returned" =>
        /\ DOMAIN returned.classifications = Rows
        /\ \A i \in Rows : returned.classifications[i] \in LabelsFor(calls[i])
        /\ \A i \in Rows : TerminalFailure(i) => returned.classifications[i] = "Error"

\* C2 witness: the call returned two results, the first candidate failed on a
\* non-retryable error and the second one was classified Normal
C2_Witness ==
  /\ mainpc = "returned"
  /\ n = 2
  /\ TerminalFailure(1)
  /\ calls[2] = <<"ok">>
  /\ returned.classifications[1] = "Error"
  /\ returned.classifications[2] = "Normal"

\* C3: the number of tasks inside the semaphore section never exceeds
\* CONCURRENCY, and the semaphore counter is what is left of it.
C3_BoundedInFlight ==
  /\ Cardinality(InFlight) <= CONCURRENCY
  /\ sem = CONCURRENCY - Cardinality(InFlight)

\* C3 witness: every slot is taken and a further candidate is waiting
C3_Witness ==
  /\ Cardinality(InFlight) = CONCURRENCY
  /\ \E i \in Rows : pc[i] = "queued"

\* C4: position idx of every returned list belongs to candidate row idx,
\* whatever order the tasks completed in.
C4_ResultsByPosition ==
  mainpc = "returned" =>
    \A idx \in Rows :
      /\ returned.owner[idx] = idx
      /\ returned.cleaned_logs[idx] = idx
      /\ returned.classifications[idx] = results[idx].label
      /\ results[idx].cand = idx

\* C4 witness: the second task completed before the first one
C4_Witness ==
  /\ mainpc = "returned"
  /\ n = 2
  /\ first_done = 2
  /\ returned.classifications[1] # returned.classifications[2]

\* C5 (as claimed): an attempt that ran into the per-call timeout is followed
\* by another attempt unless it was attempt number max_attempts.
C5_TimeoutRetried ==
  \A i \in Rows : \A k \in 1..Len(calls[i]) :
    (pc[i] = "done" /\ calls[i][k] = "timeout")
      => (k < Len(calls[i]) \/ k = max_attempts)

CountOf(S) == Cardinality(S)

\* C6 (as claimed): on return the error counter equals the number of
\* candidates returned as Error and the call counter the number of the others.
C6_StatsMatchResults ==
  mainpc = "returned" =>
    /\ returned.stats.errors =
         CountOf({i \in Rows : returned.classifications[i] = "Error"})
    /\ returned.stats.total_calls =
         CountOf({i \in Rows : returned.classifications[i] # "Error"})

(* ================== properties of the summary report =================== *)

\* C21: for every pair of counts the report's risk_level is HIGH when
\* security_incidents > 5 or critical_anomalies > 10, otherwise MEDIUM when
\* security_incidents > 2 or critical_anomalies > 5, otherwise LOW
C21_RiskLevel ==
  rpc = "assessed" =>
    /\ (security_incidents > 5 \/ critical_anomalies > 10) => risk_level = "HIGH"
    /\ (~(security_incidents > 5 \/ critical_anomalies > 10)
          /\ (security_incidents > 2 \/ critical_anomalies > 5)) => risk_level = "MEDIUM"
    /\ (~(security_incidents > 5 \/ critical_anomalies > 10)
          /\ ~(security_incidents > 2 \/ critical_anomalies > 5)) => risk_level = "LOW"

\* the boundary pair: 5 incidents and 10 critical anomalies are still MEDIUM
C21_Witness ==
  /\ rpc = "assessed"
  /\ security_incidents = 5
  /\ critical_anomalies = 10
  /\ risk_level = "MEDIUM"
(* ===================== properties of the record_id ===================== *)

\* C22: record_id is a deterministic function of the normalized timestamp
\* and the message: two runs of the program on the same records write the
\* same record_ids, and records with equal normalized timestamp and
\* message get equal record_ids
C22_RecordIdStable ==
  /\ (run = 2 /\ wpc = "closed") => written[1] = written[2]
  /\ \A r \in 1..2 : \A i, j \in 1..Len(written[r]) :
       (/\ normalize_timestamp(records[i].timestamp) = normalize_timestamp(records[j].timestamp)
        /\ log_content(records[i].log) = log_content(records[j].log))
         => written[r][i] = written[r][j]
(* ================= properties of the attempt sequence ================== *)

\* the task is inside with_retry
InRetryLoop(i) == pc[i] \in {"post_outer", "post_inner", "backoff"}

\* C23: the attempts of with_retry follow Attempt -> Success,
\* Attempt -> RetryableFailure -> Backoff -> Attempt or
\* Attempt -> NonRetryableFailure: every attempt but the last ended in a
\* retryable failure, a returned result or a failure that is not retried
\* ends the task with no later attempt, and every attempt after the first
\* starts from exactly one backoff sleep, which is entered only on a
\* retryable failure
C23_AttemptSequence ==
  /\ [](\A i \in Rows :
          /\ \A k \in 1..(Len(calls[i]) - 1) : calls[i][k] = "retryable"
          /\ InRetryLoop(i) =>
                \A k \in 1..Len(calls[i]) : calls[i][k] = "retryable")
  /\ [][\A i \in Rows :
          /\ (pc'[i] = "post_outer" /\ pc[i] # "post_outer") =>
                \/ pc[i] = "queued" /\ calls[i] = <<>>
                \/ pc[i] = "backoff" /\ calls'[i] = calls[i]
          /\ (pc'[i] = "backoff" /\ pc[i] # "backoff") =>
                /\ pc[i] \in {"post_outer", "post_inner"}
                /\ calls'[i] = Append(calls[i], "retryable")
          /\ (pc[i] = "backoff" /\ pc'[i] # "backoff") => pc'[i] = "post_outer"
          /\ (Len(calls'[i]) > Len(calls[i]) /\ Last(calls'[i]) # "retryable") =>
                pc'[i] = "done"
          /\ pc[i] = "done" => (pc'[i] = "done" /\ calls'[i] = calls[i])]_vars

\* a task whose second attempt succeeded after one retryable failure
C23_Witness ==
  \E i \in Rows : pc[i] = "done" /\ calls[i] = <<"retryable", "ok">>
(* ======================= properties of termination ===================== *)

\* C24: when every single request eventually returns or fails,
\* classify_anomalies terminates: every scheduled candidate eventually gets
\* a semaphore slot, finishes its attempts and gives the slot back, also
\* with more candidates than CONCURRENCY, with retries, and with the
\* connection pool limited to CONCURRENCY connections
C24_Terminates ==
  <>(/\ mainpc = "returned"
     /\ \A i \in Rows : pc[i] = "done"
     /\ sem = CONCURRENCY
     /\ acquired = {})

\* more candidates than slots, the pool used up by the outer response of a
\* task whose inner request is waiting, and another task still queued
C24_Witness ==
  /\ n > CONCURRENCY
  /\ \E i, j \in Rows :
       /\ pc[i] = "post_inner"
       /\ attempts[i] > 0
       /\ ~PoolFree
       /\ pc[j] = "queued"
(* ==================== properties of the backoff delay ================== *)

\* min(initial_delay * backoff_factor^(k-1), max_delay)
NominalDelay(k) ==
  Min(config.initial_delay * Pow(config.backoff_factor, k - 1), config.max_delay)

\* C25: the delay slept after the k-th failed attempt lies in
\* [(1 - jitter) * d, (1 + jitter) * d] with
\* d = min(initial_delay * backoff_factor^(k-1), max_delay) and is never
\* negative; with the defaults d is 1 s after the first failure and 2 s
\* after the second
C25_BackoffDelay ==
  wrpc = "sleep" =>
    /\ 100 * delay >= (100 - config.jitter) * NominalDelay(rs_attempts)
    /\ 100 * delay <= (100 + config.jitter) * NominalDelay(rs_attempts)
    /\ delay >= 0
    /\ (config = DefaultRetryConfig /\ rs_attempts = 1) => NominalDelay(rs_attempts) = 1000
    /\ (config = DefaultRetryConfig /\ rs_attempts = 2) => NominalDelay(rs_attempts) = 2000

\* the second sleep of the default configuration, with the largest downward jitter
C25_Witness ==
  /\ wrpc = "sleep"
  /\ config = DefaultRetryConfig
  /\ rs_attempts = 2
  /\ delay = 1800
(* ================= properties of the batch statistics ================== *)

\* C26: the statistics classify_anomalies returns for a file count only
\* that file's batch: its total calls and its error count are the calls and
\* errors made since classify_anomalies was called for this file, without
\* those of the files processed before it in the same process
C26_StatsPerBatch ==
  mainpc = "returned" =>
    /\ returned.stats.total_calls = LLM_STATS.total_calls - stats_at_start.total_calls
    /\ returned.stats.errors = LLM_STATS.errors - stats_at_start.errors
(* ============== properties of the rolling window: counts =============== *)

\* the summaries of a chunked frame and the rows it kept
Summaries(d) == SelectSeq(d, LAMBDA r : r.anomaly_source = "FLOOD")
KeptRows(d) == SelectSeq(d, LAMBDA r : r.anomaly_source # "FLOOD")

RECURSIVE SumOfCounts(_)
SumOfCounts(d) == IF d = <<>> THEN 0 ELSE Head(d).flood_count + SumOfCounts(Tail(d))

\* C27: rolling_window_chunking conserves records: the occurrence count of
\* every summary is the number of input rows the summary replaces, the rows
\* kept plus the sum of the counts is the input length, and the kept rows
\* stay in input order
C27_RecordsConserved ==
  [][(ppc = "templates" /\ ppc' = "loaded") =>
       /\ \A k \in 1..Len(df') :
            df'[k].anomaly_source = "FLOOD" =>
              df'[k].flood_count = Cardinality(df'[k].flood_rows)
       /\ Len(KeptRows(df')) + SumOfCounts(Summaries(df')) = Len(df)
       /\ \A k, m \in 1..Len(KeptRows(df')) :
            k < m => KeptRows(df')[k].orig < KeptRows(df')[m].orig]_vars
(* ===================== properties of the ratio rules =================== *)

\* C28: for a ratio rule numerator and denominator are counted over the same
\* window of the same group, so the numerator never exceeds the denominator
\* and the ratio of every anomaly lies within [0, 1], also when several
\* events carry the same timestamp
C28_RatioWithinUnit ==
  [][(ppc = "redacted" /\ ppc' = "behavioral") =>
       \A a \in 1..Len(behavioral_anomalies') :
         /\ behavioral_anomalies'[a].count[1] >= 0
         /\ behavioral_anomalies'[a].count[1] <= behavioral_anomalies'[a].count[2]]_vars
(* ================== properties of the written records ================== *)

\* C29: every record written to the anomaly file carries a redacted
\* message: whichever source the anomaly came from, its log text is the
\* line as loaded passed through redact_security_leaks
C29_WrittenRedacted ==
  ppc = "written" =>
    \A k \in 1..Len(final_anomalies) :
      final_anomalies[k].log = redact_security_leaks(final_anomalies[k].raw_log)
(* =================== properties of the HTTP requests =================== *)

\* C30: each attempt of a candidate's retry sequence sends exactly one HTTP
\* request to the classifier endpoint: no invocation of make_llm_call has
\* more than one request answered, and a candidate that succeeds on its
\* first attempt has caused exactly one
C30_OneRequestPerAttempt ==
  \A i \in Rows :
    /\ posts[i] <= 1
    /\ (pc[i] = "done" /\ calls[i] = <<"ok">>) => posts[i] = 1
====
